---- MODULE Spec2Model ----
(***************************************************************************)
(* PDFTOOLS backend (Flask application backend/app.py over                 *)
(* backend/utils/pdf_handler.py): the page-range parser, the upload and    *)
(* identifier helpers, the response envelope, and the request handlers of  *)
(* the PDF operations together with the PDFHandler methods they call.      *)
(*                                                                         *)
(* Strings the code inspects character by character (page strings, file    *)
(* names) are sequences of one-character strings.  Python dicts are        *)
(* records; Python truthiness of a dict or a list is "non-empty".          *)
(***************************************************************************)
EXTENDS Integers, Sequences, FiniteSets, TLC

VARIABLES
    page_string,    \* parse_page_range: the argument of the call
    parsed,         \* parse_page_range: the outcome of the call
    pc,             \* parse_page_range: "start" before the call, "done" after
    uploads,        \* UPLOAD_FOLDER: saved file name -> file content
    outputs,        \* OUTPUT_FOLDER: output file name -> file content
    temp,           \* TEMP_FOLDER: archive name -> archive
    running,        \* requests in progress in parallel: thread -> its position
    next_id,        \* number of identifiers generate_file_id has handed out
    last,           \* the request served last: what it passed on and answered
    served          \* number of requests answered so far

vars == <<page_string, parsed, pc, uploads, outputs, temp, running, next_id, last,
          served>>

(***************************************************************************)
(* Bounds of the model.                                                    *)
(***************************************************************************)
MaxLen == 5         \* longest page string given to parse_page_range
MaxPages == 2       \* most pages of an uploaded PDF
MaxFiles == 2       \* most files in the 'files' field of one request
MaxRequests == 1    \* requests served in one run, any endpoint
MaxSecurityRequests == 2    \* requests served in one run of protect and unlock alone
MaxSize == 11       \* largest size, in bytes, of a file a compression step writes

(***************************************************************************)
(* Python string primitives used by the code.                              *)
(***************************************************************************)
AllDigits == {"0", "1", "2", "3", "4", "5", "6", "7", "8", "9"}

DigitVal(c) ==
    CASE c = "0" -> 0 [] c = "1" -> 1 [] c = "2" -> 2 [] c = "3" -> 3
      [] c = "4" -> 4 [] c = "5" -> 5 [] c = "6" -> 6 [] c = "7" -> 7
      [] c = "8" -> 8 [] c = "9" -> 9

RECURSIVE lstrip(_)
lstrip(s) ==
    IF Len(s) > 0 /\ s[1] = " " THEN lstrip(SubSeq(s, 2, Len(s))) ELSE s

RECURSIVE rstrip(_)
rstrip(s) ==
    IF Len(s) > 0 /\ s[Len(s)] = " " THEN rstrip(SubSeq(s, 1, Len(s) - 1)) ELSE s

\* str.strip(): blanks removed at both ends
strip(s) == rstrip(lstrip(s))

\* c in s
contains(s, c) == \E i \in 1..Len(s) : s[i] = c

\* str.split(sep) for a one-character separator: always at least one piece
RECURSIVE split(_, _)
split(s, sep) ==
    IF ~contains(s, sep) THEN <<s>>
    ELSE LET i == CHOOSE k \in 1..Len(s) :
                      s[k] = sep /\ \A j \in 1..(k - 1) : s[j] # sep
         IN  <<SubSeq(s, 1, i - 1)>> \o split(SubSeq(s, i + 1, Len(s)), sep)

IsDigits(s) == Len(s) > 0 /\ \A i \in 1..Len(s) : s[i] \in AllDigits

RECURSIVE DigitsValue(_)
DigitsValue(s) ==
    IF Len(s) = 0 THEN 0
    ELSE 10 * DigitsValue(SubSeq(s, 1, Len(s) - 1)) + DigitVal(s[Len(s)])

\* int(s): blanks around the literal are ignored, one sign may lead, the rest
\* must be decimal digits; anything else raises ValueError (ok = FALSE).
py_int(s) ==
    LET t == strip(s)
        signed == Len(t) > 0 /\ t[1] \in {"+", "-"}
        body == IF signed THEN SubSeq(t, 2, Len(t)) ELSE t
    IN  IF IsDigits(body)
        THEN [ok |-> TRUE,
              val |-> IF signed /\ t[1] = "-" THEN 0 - DigitsValue(body)
                      ELSE DigitsValue(body)]
        ELSE [ok |-> FALSE, val |-> 0]

\* list(range(a, b)): a, a+1, ..., b-1; empty when a >= b
py_range(a, b) == IF a < b THEN [i \in 1..(b - a) |-> a + i - 1] ELSE <<>>

SeqToSet(l) == {l[i] : i \in 1..Len(l)}

\* the list of pages as collected, neither sorted nor deduplicated
unsorted_pages(pages) == pages

\* sorted(set(pages)): the distinct elements in ascending order
sorted_set(pages) ==
    LET S == SeqToSet(pages)
    IN  IF S = {} THEN <<>>
        ELSE LET lo == CHOOSE x \in S : \A y \in S : x <= y
                 hi == CHOOSE x \in S : \A y \in S : y <= x
             IN  SelectSeq([i \in 1..(hi - lo + 1) |-> lo + i - 1],
                           LAMBDA x : x \in S)

(***************************************************************************)
(* parse_page_range (app.py).  Outcomes: the value None, a list, or a      *)
(* raised exception.                                                       *)
(***************************************************************************)
ReturnsNone == [tag |-> "none", pages |-> <<>>]
Raises == [tag |-> "error", pages |-> <<>>]
ReturnsList(l) == [tag |-> "list", pages |-> l]

\* a part that cannot be read contributes nothing and the loop goes on
part_pages_skip_invalid(part0) ==
    LET part == strip(part0)
    IN  IF contains(part, "-")
        THEN LET se == split(part, "-")
             IN  IF Len(se) # 2 THEN [ok |-> TRUE, pages |-> <<>>]
                 ELSE LET a == py_int(strip(se[1]))
                          b == py_int(strip(se[2]))
                      IN  IF a.ok /\ b.ok
                          THEN [ok |-> TRUE, pages |-> py_range(a.val, b.val + 1)]
                          ELSE [ok |-> TRUE, pages |-> <<>>]
        ELSE LET v == py_int(part)
             IN  IF v.ok THEN [ok |-> TRUE, pages |-> <<v.val>>]
                 ELSE [ok |-> TRUE, pages |-> <<>>]

\* the body of the loop for one part: the pages it appends, or ok = FALSE when
\* the unpacking of split('-') or one of the int() calls raises ValueError
part_pages(part0) ==
    LET part == strip(part0)
    IN  IF contains(part, "-")
        THEN LET se == split(part, "-")
             IN  IF Len(se) # 2 THEN [ok |-> FALSE, pages |-> <<>>]
                 ELSE LET a == py_int(strip(se[1]))
                          b == py_int(strip(se[2]))
                      IN  IF a.ok /\ b.ok
                          THEN [ok |-> TRUE, pages |-> py_range(a.val, b.val + 1)]
                          ELSE [ok |-> FALSE, pages |-> <<>>]
        ELSE LET v == py_int(part)
             IN  IF v.ok THEN [ok |-> TRUE, pages |-> <<v.val>>]
                 ELSE [ok |-> FALSE, pages |-> <<>>]

\* the loop over the parts: the first part that raises ends the call
RECURSIVE collect_pages(_)
collect_pages(parts) ==
    IF Len(parts) = 0 THEN [ok |-> TRUE, pages |-> <<>>]
    ELSE LET p == part_pages(parts[1])
         IN  IF ~p.ok THEN [ok |-> FALSE, pages |-> <<>>]
             ELSE LET rest == collect_pages(SubSeq(parts, 2, Len(parts)))
                  IN  IF rest.ok THEN [ok |-> TRUE, pages |-> p.pages \o rest.pages]
                      ELSE [ok |-> FALSE, pages |-> <<>>]

\* the empty string is answered with an empty list instead of None
parse_page_range_empty_list(s) ==
    LET r == collect_pages(split(s, ","))
    IN  IF Len(s) = 0 THEN ReturnsList(<<>>)
        ELSE IF r.ok THEN ReturnsList(sorted_set(r.pages)) ELSE Raises

parse_page_range(s) ==
    IF Len(s) = 0 THEN ReturnsNone
    ELSE LET r == collect_pages(split(s, ","))
         IN  IF r.ok THEN ReturnsList(sorted_set(r.pages)) ELSE Raises

(***************************************************************************)
(* Files.  A file's content is what the PDF libraries can tell about it:   *)
(* a PDF with its pages and its user password ("" = not encrypted), bytes  *)
(* that are no PDF, or no bytes at all.  A page is named by the number it  *)
(* had in the document a client made.                                      *)
(***************************************************************************)
doc(n) == [i \in 1..n |-> i]

PDF(pages, pw) == [kind |-> "pdf", pages |-> pages, pw |-> pw]
Garbage == [kind |-> "garbage", pages |-> <<>>, pw |-> ""]
EmptyFile == [kind |-> "empty", pages |-> <<>>, pw |-> ""]

Passwords == {"pw1", "pw2"}

PlainPDFs == {PDF(doc(n), "") : n \in 0..MaxPages}
EncryptedPDFs == {PDF(doc(1), "pw1")}
Contents == PlainPDFs \cup EncryptedPDFs \cup {Garbage, EmptyFile}

PdfName == <<"a", ".", "p", "d", "f">>
ExeName == <<"a", ".", "e", "x", "e">>

\* what a client uploads: any content under an allowed name, and a file under a
\* name that is not allowed
Files ==
    {[filename |-> PdfName, content |-> c] : c \in Contents}
    \cup {[filename |-> ExeName, content |-> PDF(doc(1), "")]}

\* page strings a client sends with remove-pages
PageSpecs ==
    {<<>>, <<"1">>, <<"2">>, <<"1", ",", "2">>, <<"1", ",", "a">>,
     <<"2", "-", "1">>, <<"0">>}

(***************************************************************************)
(* Utility functions of app.py.                                            *)
(***************************************************************************)
UpperCase == <<"A", "B", "C", "D", "E", "F", "G", "H", "I", "J", "K", "L", "M",
               "N", "O", "P", "Q", "R", "S", "T", "U", "V", "W", "X", "Y", "Z">>
LowerCase == <<"a", "b", "c", "d", "e", "f", "g", "h", "i", "j", "k", "l", "m",
               "n", "o", "p", "q", "r", "s", "t", "u", "v", "w", "x", "y", "z">>

\* str.lower()
lower(s) ==
    [i \in 1..Len(s) |->
        IF \E k \in 1..26 : UpperCase[k] = s[i]
        THEN LowerCase[CHOOSE k \in 1..26 : UpperCase[k] = s[i]]
        ELSE s[i]]

\* str.rsplit('.', 1): split at the last dot; one piece when there is none
rsplit_dot(s) ==
    IF ~contains(s, ".") THEN <<s>>
    ELSE LET i == CHOOSE k \in 1..Len(s) :
                      s[k] = "." /\ \A j \in (k + 1)..Len(s) : s[j] # "."
         IN  <<SubSeq(s, 1, i - 1), SubSeq(s, i + 1, Len(s))>>

ALLOWED_EXTENSIONS ==
    {<<"p", "d", "f">>, <<"j", "p", "g">>, <<"j", "p", "e", "g">>,
     <<"p", "n", "g">>, <<"d", "o", "c", "x">>, <<"d", "o", "c">>,
     <<"p", "p", "t", "x">>, <<"p", "p", "t">>, <<"x", "l", "s", "x">>,
     <<"x", "l", "s">>, <<"h", "t", "m", "l">>}

allowed_file(filename) ==
    contains(filename, ".") /\ lower(rsplit_dot(filename)[2]) \in ALLOWED_EXTENSIONS

\* an identifier that was handed out before is handed out again
repeated_file_id(nid) == IF nid = 0 THEN 1 ELSE nid

\* uuid4: an identifier never handed out before
generate_file_id(nid) == nid + 1

\* str.strip("._")
RECURSIVE strip_dots(_)
strip_dots(s) ==
    IF Len(s) > 0 /\ s[1] \in {".", "_"} THEN strip_dots(SubSeq(s, 2, Len(s)))
    ELSE IF Len(s) > 0 /\ s[Len(s)] \in {".", "_"}
         THEN strip_dots(SubSeq(s, 1, Len(s) - 1))
         ELSE s

\* werkzeug's secure_filename on names of letters, digits, dots, underscores
\* and slashes: a path separator becomes an underscore, then dots and
\* underscores are stripped from both ends
secure_filename(s) ==
    strip_dots([i \in 1..Len(s) |-> IF s[i] = "/" THEN "_" ELSE s[i]])

\* a Python dict, list or string is truthy when it is not empty
truthy(d) == DOMAIN d # {}

success_response(message, data) ==
    [success |-> TRUE, message |-> message, timestamp |-> "now",
     data |-> data, status |-> 200]

\* the failure body sent with the status of a success
error_response_status_200(message, error, status) ==
    [success |-> FALSE, message |-> message, timestamp |-> "now",
     error |-> error, status |-> 200]

error_response(message, error, status) ==
    [success |-> FALSE, message |-> message, timestamp |-> "now",
     error |-> error, status |-> status]

NoPath == [id |-> 0, ext |-> <<>>]

\* save_uploaded_file: "rejected" is the (None, None, None) return, "raised" the
\* IndexError of rsplit('.', 1)[1] on a secured name without a dot
save_uploaded_file(file, nid) ==
    IF Len(file.filename) > 0 /\ allowed_file(file.filename)
    THEN LET file_id == generate_file_id(nid)
             parts == rsplit_dot(secure_filename(file.filename))
         IN  IF Len(parts) < 2
             THEN [status |-> "raised", file_id |-> file_id, filepath |-> NoPath]
             ELSE [status |-> "saved", file_id |-> file_id,
                   filepath |-> [id |-> file_id, ext |-> lower(parts[2])]]
    ELSE [status |-> "rejected", file_id |-> nid, filepath |-> NoPath]

\* the names of the files in the 'file' or 'files' field of a request
filenames(files) == [i \in 1..Len(files) |-> files[i].filename]

\* save_uploaded_files: the files saved so far stay when a later one raises
RECURSIVE save_uploaded_files(_, _, _)
save_uploaded_files(files, ups, nid) ==
    IF Len(files) = 0
    THEN [raised |-> FALSE, saved |-> <<>>, uploads |-> ups, next_id |-> nid]
    ELSE LET s == save_uploaded_file(files[1], nid)
         IN  IF s.status = "raised"
             THEN [raised |-> TRUE, saved |-> <<>>, uploads |-> ups,
                   next_id |-> s.file_id]
             ELSE IF s.status = "rejected"
             THEN save_uploaded_files(SubSeq(files, 2, Len(files)), ups, nid)
             ELSE LET rest == save_uploaded_files(
                                  SubSeq(files, 2, Len(files)),
                                  ups @@ (s.filepath :> files[1].content),
                                  s.file_id)
                  IN  [raised |-> rest.raised,
                       saved |-> <<s.filepath>> \o rest.saved,
                       uploads |-> rest.uploads, next_id |-> rest.next_id]

(***************************************************************************)
(* PDFHandler (utils/pdf_handler.py).  A method's outcome is the dict it   *)
(* returns and the file it has written, if any.                            *)
(***************************************************************************)
failure(error) == [res |-> [success |-> FALSE, error |-> error], out |-> <<>>]

\* _validate_pdf_path
validate_pdf_path(ups, path) ==
    IF path \notin DOMAIN ups THEN [valid |-> FALSE, error |-> "File not found"]
    ELSE IF ups[path].kind = "empty" THEN [valid |-> FALSE, error |-> "File is empty"]
    ELSE [valid |-> TRUE, error |-> "None"]

\* _safe_open_pdf: fitz.open raises on bytes that are no PDF
safe_open_pdf(content, password) ==
    IF content.kind # "pdf" THEN [opened |-> FALSE, error |-> "Failed to open PDF"]
    ELSE IF content.pw # "" /\ password # "" /\ password # content.pw
    THEN [opened |-> FALSE, error |-> "Invalid password"]
    ELSE IF content.pw # "" /\ password = ""
    THEN [opened |-> FALSE, error |-> "PDF is encrypted. Password required."]
    ELSE IF Len(content.pages) = 0 THEN [opened |-> FALSE, error |-> "PDF has no pages"]
    ELSE [opened |-> TRUE, error |-> "None"]

\* PdfMerger.append raises on a file PyPDF2 cannot read: no PDF, or encrypted
appendable(content) == content.kind = "pdf" /\ content.pw = ""

\* the files are appended last to first
RECURSIVE merged_pages_reversed(_, _)
merged_pages_reversed(ups, files) ==
    IF Len(files) = 0 THEN <<>>
    ELSE merged_pages_reversed(ups, SubSeq(files, 2, Len(files)))
         \o (IF appendable(ups[files[1]]) THEN ups[files[1]].pages ELSE <<>>)

\* the append loop of merge_pdfs: a file whose append raises is skipped
RECURSIVE merged_pages(_, _)
merged_pages(ups, files) ==
    IF Len(files) = 0 THEN <<>>
    ELSE (IF appendable(ups[files[1]]) THEN ups[files[1]].pages ELSE <<>>)
         \o merged_pages(ups, SubSeq(files, 2, Len(files)))

PDFHandler_merge_pdfs(ups, input_files, output_path) ==
    IF Len(input_files) = 0 THEN failure("No input files provided")
    ELSE LET valid_files ==
                 SelectSeq(input_files, LAMBDA f : validate_pdf_path(ups, f).valid)
         IN  IF Len(valid_files) = 0 THEN failure("No valid PDF files to merge")
             ELSE IF Len(valid_files) < 2
             THEN failure("At least 2 valid PDF files required for merge")
             ELSE [res |-> [success |-> TRUE, output_path |-> output_path,
                            files_merged |-> Len(valid_files)],
                   out |-> <<PDF(merged_pages(ups, valid_files), "")>>]

\* doc.delete_page(n) for each n in turn; a number past the end raises
RECURSIVE delete_pages(_, _)
delete_pages(pages, nums) ==
    IF Len(nums) = 0 THEN [raised |-> FALSE, pages |-> pages]
    ELSE IF nums[1] >= Len(pages) THEN [raised |-> TRUE, pages |-> pages]
    ELSE delete_pages(SubSeq(pages, 1, nums[1]) \o SubSeq(pages, nums[1] + 2, Len(pages)),
                      SubSeq(nums, 2, Len(nums)))

PDFHandler_remove_pages(ups, input_path, output_path, pages_to_remove) ==
    LET v == validate_pdf_path(ups, input_path)
    IN  IF ~v.valid THEN failure(v.error)
        ELSE IF ~truthy(pages_to_remove) THEN failure("No pages specified to remove")
        ELSE LET o == safe_open_pdf(ups[input_path], "")
                 pages == ups[input_path].pages
                 total_pages == Len(pages)
                 valid_pages == SelectSeq(pages_to_remove,
                                          LAMBDA p : 1 <= p /\ p <= total_pages)
                 pages_to_delete ==
                     SortSeq([i \in 1..Len(valid_pages) |-> valid_pages[i] - 1],
                             LAMBDA a, b : a > b)
                 d == delete_pages(pages, pages_to_delete)
             IN  IF ~o.opened THEN failure(o.error)
                 ELSE IF Len(valid_pages) = 0 THEN failure("Invalid page numbers")
                 ELSE IF Len(valid_pages) >= total_pages
                 THEN failure("Cannot remove all pages from PDF")
                 ELSE IF d.raised THEN failure("bad page number")
                 ELSE [res |-> [success |-> TRUE, output_path |-> output_path,
                                pages_removed |-> Len(valid_pages)],
                       out |-> <<PDF(d.pages, "")>>]

\* doc.save(..., encryption=AES_256, owner_pw=password, user_pw=password)
save_encrypted(content, password) == PDF(content.pages, password)

PDFHandler_protect_pdf(ups, input_path, output_path, password) ==
    LET v == validate_pdf_path(ups, input_path)
    IN  IF ~v.valid THEN failure(v.error)
        ELSE IF password = "" THEN failure("Password cannot be empty")
        ELSE LET o == safe_open_pdf(ups[input_path], "")
             IN  IF ~o.opened THEN failure(o.error)
                 ELSE [res |-> [success |-> TRUE, output_path |-> output_path],
                       out |-> <<save_encrypted(ups[input_path], password)>>]

\* the document is saved as it was opened, still encrypted
save_keeping_encryption(content) == content

\* doc.save(output_path) of an authenticated document: written without encryption
save_decrypted(content) == PDF(content.pages, "")

\* doc.authenticate(password)
authenticate(content, password) == password = content.pw

PDFHandler_unlock_pdf(ups, input_path, output_path, password) ==
    LET v == validate_pdf_path(ups, input_path)
        content == ups[input_path]
    IN  IF ~v.valid THEN failure(v.error)
        ELSE IF content.kind # "pdf" THEN failure("Failed to open file")
        ELSE IF content.pw = "" THEN failure("PDF is not password protected")
        ELSE IF password = "" THEN failure("Password required to unlock PDF")
        ELSE IF ~authenticate(content, password) THEN failure("Invalid password")
        ELSE [res |-> [success |-> TRUE, output_path |-> output_path],
              out |-> <<save_decrypted(content)>>]

\* str(uuid.uuid4()): groups of hexadecimal digits joined by hyphens
uuid_str(n) ==
    LET d == CHOOSE c \in AllDigits : DigitVal(c) = n % 10
    IN  <<d, "-", d>>

OUTPUT_FOLDER == <<"o", "u", "t", "p", "u", "t", "s">>

\* os.path.join(folder, name) as a string
path_join(folder, name) == folder \o <<"/">> \o name

\* f"page_{page_num}.pdf" in a directory of the output folder
page_file(n) ==
    CASE n = 1 -> "/page_1.pdf" [] n = 2 -> "/page_2.pdf"
      [] n = 3 -> "/page_3.pdf" [] OTHER -> "/page_n.pdf"

\* the pages named by pages_str for PDFHandler.split_pdf (total pages in all):
\* everything, start-end, a comma list, or one number
split_pages(pages_str, total) ==
    IF Len(pages_str) = 0 \/ lower(pages_str) = <<"a", "l", "l">>
    THEN [ok |-> TRUE, pages |-> py_range(1, total + 1)]
    ELSE IF contains(pages_str, "-")
    THEN LET parts == split(pages_str, "-")
             start == py_int(parts[1])
             end == py_int(parts[2])
         IN  IF start.ok /\ end.ok
             THEN [ok |-> TRUE, pages |-> py_range(start.val, end.val + 1)]
             ELSE [ok |-> FALSE, pages |-> <<>>]
    ELSE IF contains(pages_str, ",")
    THEN LET parts == split(pages_str, ",")
         IN  IF \A i \in 1..Len(parts) : py_int(parts[i]).ok
             THEN [ok |-> TRUE, pages |-> [i \in 1..Len(parts) |-> py_int(parts[i]).val]]
             ELSE [ok |-> FALSE, pages |-> <<>>]
    ELSE IF py_int(pages_str).ok
    THEN [ok |-> TRUE, pages |-> <<py_int(pages_str).val>>]
    ELSE [ok |-> FALSE, pages |-> <<>>]

\* PDFHandler.split_pdf(input_path, output_dir, pages_str).  PdfReader raises
\* on a file that is no PDF, len(reader.pages) on an encrypted one; os.makedirs
\* raises TypeError on an output_dir that is no path.  out maps each page file
\* written to its content.
PDFHandler_split_pdf(ups, input_path, output_dir, pages_str) ==
    LET v == validate_pdf_path(ups, input_path)
        content == ups[input_path]
        total == Len(content.pages)
        pages == split_pages(pages_str, total)
        valid_pages == SelectSeq(pages.pages, LAMBDA p : 1 <= p /\ p <= total)
    IN  IF ~v.valid THEN failure(v.error)
        ELSE IF content.kind # "pdf" THEN failure("Failed to read PDF")
        ELSE IF content.pw # "" THEN failure("File has not been decrypted")
        ELSE IF total = 0 THEN failure("PDF has no pages")
        ELSE IF ~pages.ok THEN failure("Invalid page range")
        ELSE IF Len(valid_pages) = 0 THEN failure("No valid pages specified")
        ELSE IF "suffix" \notin DOMAIN output_dir THEN failure("TypeError")
        ELSE [res |-> [success |-> TRUE,
                       pages |-> [i \in 1..Len(valid_pages) |->
                                     [id |-> output_dir.id,
                                      suffix |-> page_file(valid_pages[i])]],
                       page_count |-> Len(valid_pages)],
              out |-> [f \in {[id |-> output_dir.id, suffix |-> page_file(n)] :
                                  n \in SeqToSet(valid_pages)} |->
                          PDF(<<content.pages[CHOOSE n \in SeqToSet(valid_pages) :
                                                  page_file(n) = f.suffix]>>, "")]]

\* os.path.getsize: a file written by a compression step has the size the step
\* gave it, an empty upload has none, any other upload the same size
getsize(content) ==
    IF "size" \in DOMAIN content THEN content.size
    ELSE IF content.kind = "empty" THEN 0
    ELSE MaxSize - 1

\* what writer.write or doc.save leaves of a document when it ends normally
compressed(content, size) ==
    [kind |-> "pdf", pages |-> content.pages, pw |-> "", size |-> size]

\* what doc.save leaves when it raises after it has opened the output file
partial(size) ==
    IF size = 0 THEN EmptyFile
    ELSE [kind |-> "partial", pages |-> <<>>, pw |-> "", size |-> size]

\* the sizes a compression step may produce: far below the input, within a
\* tenth of it, equal to it, above it
Sizes == {1, MaxSize - 2, MaxSize - 1, MaxSize}

\* pypdf's step: it raises, or it writes the document in some size
Method1Outcomes(content) ==
    {[ok |-> FALSE, size |-> 0]}
    \cup (IF content.kind = "pdf" /\ content.pw = ""
          THEN {[ok |-> TRUE, size |-> n] : n \in Sizes} ELSE {})

\* PyMuPDF's step: it raises before doc.save (nothing is touched), doc.save
\* raises (the output file is left as it was, or truncated and partly written),
\* or doc.save writes the document in some size
Method2Outcomes(content) ==
    {[kind |-> "raised", left |-> "untouched", size |-> 0]}
    \cup (IF content.kind = "pdf" /\ content.pw = "" /\ Len(content.pages) >= 1
          THEN {[kind |-> "save_raised", left |-> "untouched", size |-> 0]}
               \cup {[kind |-> "save_raised", left |-> "partial", size |-> n] :
                         n \in {0} \cup Sizes}
               \cup {[kind |-> "saved", left |-> "written", size |-> n] : n \in Sizes}
          ELSE {})

\* round((1 - compressed_size / original_size) * 100, 2), in hundredths of a percent
reduction_of(original_size, compressed_size) ==
    (2 * (original_size - compressed_size) * 10000 + original_size)
        \div (2 * original_size)

\* PDFHandler.compress_pdf; m1 and m2 are what the two library steps do
PDFHandler_compress_pdf(ups, input_path, output_path, quality, m1, m2) ==
    LET v == validate_pdf_path(ups, input_path)
        content == ups[input_path]
        original_size == getsize(content)
        \* Method 1, with the copy as its fallback
        file1 == IF m1.ok THEN compressed(content, m1.size) ELSE content
        size1 == IF m1.ok THEN m1.size ELSE original_size
        \* Method 2, whose failure is passed over
        second == 10 * size1 >= 9 * original_size /\ quality # "high"
        file2 == IF ~second \/ m2.left = "untouched" THEN file1
                 ELSE IF m2.left = "partial" THEN partial(m2.size)
                 ELSE compressed(content, m2.size)
        size2 == IF second /\ m2.kind = "saved" THEN m2.size ELSE size1
        method == IF second /\ m2.kind = "saved" THEN "pymupdf+pypdf" ELSE "pypdf"
        \* the copy when nothing was gained
        copied == size2 >= original_size
        compressed_size == IF copied THEN original_size ELSE size2
        reduction == IF copied THEN 0 ELSE reduction_of(original_size, size2)
    IN  IF ~v.valid THEN failure(v.error)
        ELSE [res |-> [success |-> TRUE, output_path |-> output_path,
                       original_size |-> original_size,
                       compressed_size |-> compressed_size,
                       reduction |-> IF reduction > 0 THEN reduction ELSE 0,
                       method |-> method],
              out |-> <<IF copied THEN content ELSE file2>>]

(***************************************************************************)
(* Request handlers of app.py.  A handler maps the request and the folders *)
(* to the folders after it and to the record of what it did: the contents  *)
(* it passed to PDFHandler, the dict PDFHandler returned (hres, empty when *)
(* PDFHandler was not called), the output path it chose and its response.  *)
(***************************************************************************)
NotParsed == [tag |-> "unparsed", pages |-> <<>>]

\* a request answered before anything is saved or generated
refused(endpoint, ups, outs, nid, resp) ==
    [uploads |-> ups, outputs |-> outs, next_id |-> nid,
     last |-> [endpoint |-> endpoint, inputs |-> <<>>, password |-> "",
               page_list |-> NotParsed, hres |-> <<>>, out |-> <<>>, resp |-> resp]]

\* the output folder after the handler's file, if any, is written
written(outs, output_path, h) ==
    IF Len(h.out) = 1 THEN outs @@ (output_path :> h.out[1]) ELSE outs

\* POST /api/pdf/merge; files is the list of the 'files' field, empty when absent
merge_pdfs(files, ups, outs, nid) ==
    IF Len(files) = 0
    THEN refused("merge", ups, outs, nid,
                 error_response("No PDF files provided", "None", 400))
    ELSE IF Len(files) < 2
    THEN refused("merge", ups, outs, nid,
                 error_response("At least 2 PDF files required for merging", "None", 400))
    ELSE LET sv == save_uploaded_files(files, ups, nid)
             input_paths == sv.saved
             output_id == generate_file_id(sv.next_id)
             output_path == [id |-> output_id, suffix |-> "_merged.pdf"]
             h == PDFHandler_merge_pdfs(sv.uploads, input_paths, output_path)
         IN  IF sv.raised
             THEN [uploads |-> sv.uploads, outputs |-> outs, next_id |-> sv.next_id,
                   last |-> [endpoint |-> "merge", inputs |-> <<>>, password |-> "",
                             page_list |-> NotParsed, hres |-> <<>>, out |-> <<>>,
                             resp |-> error_response("Error merging PDFs",
                                                     "IndexError", 500)]]
             ELSE [uploads |-> sv.uploads,
                   outputs |-> written(outs, output_path, h),
                   next_id |-> output_id,
                   last |-> [endpoint |-> "merge",
                             inputs |-> [i \in 1..Len(input_paths) |->
                                            sv.uploads[input_paths[i]]],
                             password |-> "", page_list |-> NotParsed,
                             hres |-> <<h.res>>, out |-> <<output_path>>,
                             resp |-> IF truthy(h.res)
                                      THEN success_response(
                                               "PDFs merged successfully",
                                               [file_id |-> output_id,
                                                download_url |-> output_path])
                                      ELSE error_response("Failed to merge PDFs",
                                                          "None", 500)]]

\* the part the single-file handlers share: the 'file' field is looked up, the
\* form fields are checked by the handler itself, then the upload is saved
raised_in_save(endpoint, ups, outs, s, message) ==
    [uploads |-> ups, outputs |-> outs, next_id |-> s.file_id,
     last |-> [endpoint |-> endpoint, inputs |-> <<>>, password |-> "",
               page_list |-> NotParsed, hres |-> <<>>, out |-> <<>>,
               resp |-> error_response(message, "IndexError", 500)]]

\* POST /api/pdf/remove-pages; file is the 'file' field, empty when absent
remove_pages(file, pages, ups, outs, nid) ==
    IF Len(file) = 0
    THEN refused("remove-pages", ups, outs, nid,
                 error_response("No PDF file provided", "None", 400))
    ELSE IF ~truthy(pages)
    THEN refused("remove-pages", ups, outs, nid,
                 error_response("No pages specified for removal", "None", 400))
    ELSE LET s == save_uploaded_file(file[1], nid)
             ups2 == ups @@ (s.filepath :> file[1].content)
             output_id == generate_file_id(s.file_id)
             output_path == [id |-> output_id, suffix |-> "_modified.pdf"]
             page_list == parse_page_range(pages)
             h == PDFHandler_remove_pages(ups2, s.filepath, output_path, page_list.pages)
         IN  IF s.status = "raised"
             THEN raised_in_save("remove-pages", ups, outs, s, "Error removing pages")
             ELSE IF s.status = "rejected"
             THEN refused("remove-pages", ups, outs, nid,
                          error_response("Invalid file", "None", 400))
             ELSE IF page_list.tag = "error"
             THEN [uploads |-> ups2, outputs |-> outs, next_id |-> output_id,
                   last |-> [endpoint |-> "remove-pages",
                             inputs |-> <<file[1].content>>, password |-> "",
                             page_list |-> page_list, hres |-> <<>>,
                             out |-> <<output_path>>,
                             resp |-> error_response("Error removing pages",
                                                     "ValueError", 500)]]
             ELSE [uploads |-> ups2,
                   outputs |-> written(outs, output_path, h),
                   next_id |-> output_id,
                   last |-> [endpoint |-> "remove-pages",
                             inputs |-> <<file[1].content>>, password |-> "",
                             page_list |-> page_list, hres |-> <<h.res>>,
                             out |-> <<output_path>>,
                             resp |-> IF truthy(h.res)
                                      THEN success_response(
                                               "Pages removed successfully",
                                               [file_id |-> output_id,
                                                download_url |-> output_path])
                                      ELSE error_response("Failed to remove pages",
                                                          "None", 500)]]

\* POST /api/security/protect
protect_pdf(file, password, ups, outs, nid) ==
    IF Len(file) = 0
    THEN refused("protect", ups, outs, nid,
                 error_response("No PDF file provided", "None", 400))
    ELSE IF password = ""
    THEN refused("protect", ups, outs, nid,
                 error_response("Password is required", "None", 400))
    ELSE LET s == save_uploaded_file(file[1], nid)
             ups2 == ups @@ (s.filepath :> file[1].content)
             output_id == generate_file_id(s.file_id)
             output_path == [id |-> output_id, suffix |-> "_protected.pdf"]
             h == PDFHandler_protect_pdf(ups2, s.filepath, output_path, password)
         IN  IF s.status = "raised"
             THEN raised_in_save("protect", ups, outs, s, "Error protecting PDF")
             ELSE IF s.status = "rejected"
             THEN refused("protect", ups, outs, nid,
                          error_response("Invalid file", "None", 400))
             ELSE [uploads |-> ups2,
                   outputs |-> written(outs, output_path, h),
                   next_id |-> output_id,
                   last |-> [endpoint |-> "protect",
                             inputs |-> <<file[1].content>>, password |-> password,
                             page_list |-> NotParsed, hres |-> <<h.res>>,
                             out |-> <<output_path>>,
                             resp |-> IF truthy(h.res)
                                      THEN success_response(
                                               "PDF protected successfully",
                                               [file_id |-> output_id,
                                                download_url |-> output_path])
                                      ELSE error_response("Failed to protect PDF",
                                                          "None", 500)]]

\* POST /api/security/unlock
unlock_pdf(file, password, ups, outs, nid) ==
    IF Len(file) = 0
    THEN refused("unlock", ups, outs, nid,
                 error_response("No PDF file provided", "None", 400))
    ELSE IF password = ""
    THEN refused("unlock", ups, outs, nid,
                 error_response("Password is required", "None", 400))
    ELSE LET s == save_uploaded_file(file[1], nid)
             ups2 == ups @@ (s.filepath :> file[1].content)
             output_id == generate_file_id(s.file_id)
             output_path == [id |-> output_id, suffix |-> "_unlocked.pdf"]
             h == PDFHandler_unlock_pdf(ups2, s.filepath, output_path, password)
         IN  IF s.status = "raised"
             THEN raised_in_save("unlock", ups, outs, s, "Error unlocking PDF")
             ELSE IF s.status = "rejected"
             THEN refused("unlock", ups, outs, nid,
                          error_response("Invalid file", "None", 400))
             ELSE [uploads |-> ups2,
                   outputs |-> written(outs, output_path, h),
                   next_id |-> output_id,
                   last |-> [endpoint |-> "unlock",
                             inputs |-> <<file[1].content>>, password |-> password,
                             page_list |-> NotParsed, hres |-> <<h.res>>,
                             out |-> <<output_path>>,
                             resp |-> IF truthy(h.res)
                                      THEN success_response(
                                               "PDF unlocked successfully",
                                               [file_id |-> output_id,
                                                download_url |-> output_path])
                                      ELSE error_response(
                                               "Failed to unlock PDF. Check password.",
                                               "None", 500)]]

\* a directory made by os.makedirs
Directory == [kind |-> "dir", pages |-> <<>>, pw |-> ""]

\* POST /api/pdf/split.  The handler is called as split_pdf(filepath, page_list,
\* output_dir): the page list arrives as its output_dir and the directory's
\* path as its pages_str.
split_pdf(file, pages, ups, outs, nid) ==
    IF Len(file) = 0
    THEN refused("split", ups, outs, nid,
                 error_response("No PDF file provided", "None", 400))
    ELSE LET s == save_uploaded_file(file[1], nid)
             ups2 == ups @@ (s.filepath :> file[1].content)
             page_list == IF truthy(pages) THEN parse_page_range(pages) ELSE ReturnsNone
             output_dir == [id |-> s.file_id, suffix |-> ""]
             h == PDFHandler_split_pdf(ups2, s.filepath, page_list,
                                       path_join(OUTPUT_FOLDER, uuid_str(s.file_id)))
         IN  IF s.status = "raised"
             THEN raised_in_save("split", ups, outs, s, "Error splitting PDF")
             ELSE IF s.status = "rejected"
             THEN refused("split", ups, outs, nid,
                          error_response("Invalid file", "None", 400))
             ELSE IF page_list.tag = "error"
             THEN [uploads |-> ups2, outputs |-> outs, next_id |-> s.file_id,
                   last |-> [endpoint |-> "split",
                             inputs |-> <<file[1].content>>, password |-> "",
                             page_list |-> page_list, hres |-> <<>>, out |-> <<>>,
                             resp |-> error_response("Error splitting PDF",
                                                     "ValueError", 500)]]
             ELSE [uploads |-> ups2,
                   outputs |-> (outs @@ (output_dir :> Directory)) @@ h.out,
                   next_id |-> s.file_id,
                   last |-> [endpoint |-> "split",
                             inputs |-> <<file[1].content>>, password |-> "",
                             page_list |-> page_list, hres |-> <<h.res>>,
                             out |-> <<output_dir>>,
                             resp |-> IF truthy(h.res)
                                      THEN success_response(
                                               "PDF split successfully",
                                               [file_id |-> s.file_id,
                                                files |-> h.res,
                                                download_url |-> output_dir])
                                      ELSE error_response("Failed to split PDF",
                                                          "None", 500)]]

\* POST /api/pdf/compress.  os.path.getsize(output_path) raises when the handler
\* has written nothing.
compress_pdf(file, quality, m1, m2, ups, outs, nid) ==
    IF Len(file) = 0
    THEN refused("compress", ups, outs, nid,
                 error_response("No PDF file provided", "None", 400))
    ELSE LET s == save_uploaded_file(file[1], nid)
             ups2 == ups @@ (s.filepath :> file[1].content)
             output_id == generate_file_id(s.file_id)
             output_path == [id |-> output_id, suffix |-> "_compressed.pdf"]
             h == PDFHandler_compress_pdf(ups2, s.filepath, output_path, quality, m1, m2)
             outs2 == written(outs, output_path, h)
             original_size == getsize(ups2[s.filepath])
             compressed_size == getsize(outs2[output_path])
         IN  IF s.status = "raised"
             THEN raised_in_save("compress", ups, outs, s, "Error compressing PDF")
             ELSE IF s.status = "rejected"
             THEN refused("compress", ups, outs, nid,
                          error_response("Invalid file", "None", 400))
             ELSE [uploads |-> ups2,
                   outputs |-> outs2,
                   next_id |-> output_id,
                   last |-> [endpoint |-> "compress", quality |-> quality,
                             method1 |-> m1, method2 |-> m2,
                             inputs |-> <<file[1].content>>, password |-> "",
                             page_list |-> NotParsed, hres |-> <<h.res>>,
                             out |-> <<output_path>>,
                             resp |-> IF ~truthy(h.res)
                                      THEN error_response("Failed to compress PDF",
                                                          "None", 500)
                                      ELSE IF output_path \notin DOMAIN outs2
                                      THEN error_response("Error compressing PDF",
                                                          "FileNotFoundError", 500)
                                      ELSE success_response(
                                               "PDF compressed successfully",
                                               [file_id |-> output_id,
                                                original_size |-> original_size,
                                                compressed_size |-> compressed_size,
                                                savings_percent |->
                                                    reduction_of(original_size,
                                                                 compressed_size),
                                                download_url |-> output_path])]]

\* POST /api/upload; files is the list of the 'files' field, empty when absent.
\* The response lists the files save_uploaded_files has saved.
upload_files(files, ups, outs, nid) ==
    IF Len(files) = 0
    THEN refused("upload", ups, outs, nid,
                 error_response("No files provided", "None", 400))
    ELSE IF \A i \in 1..Len(files) : Len(files[i].filename) = 0
    THEN refused("upload", ups, outs, nid,
                 error_response("No files selected", "None", 400))
    ELSE LET sv == save_uploaded_files(files, ups, nid)
             names == SelectSeq(filenames(files),
                                LAMBDA n : Len(n) > 0 /\ allowed_file(n))
             saved_files == [i \in 1..Len(sv.saved) |->
                                [file_id |-> sv.saved[i].id,
                                 filepath |-> sv.saved[i],
                                 original_name |-> secure_filename(names[i])]]
         IN  IF sv.raised
             THEN [uploads |-> sv.uploads, outputs |-> outs, next_id |-> sv.next_id,
                   last |-> [endpoint |-> "upload", inputs |-> <<>>, password |-> "",
                             page_list |-> NotParsed, hres |-> <<>>, out |-> <<>>,
                             resp |-> error_response("Error uploading files",
                                                     "IndexError", 500)]]
             ELSE IF Len(sv.saved) = 0
             THEN refused("upload", ups, outs, nid,
                          error_response("No valid files uploaded", "None", 400))
             ELSE [uploads |-> sv.uploads, outputs |-> outs, next_id |-> sv.next_id,
                   last |-> [endpoint |-> "upload",
                             inputs |-> [i \in 1..Len(sv.saved) |->
                                            sv.uploads[sv.saved[i]]],
                             password |-> "", page_list |-> NotParsed,
                             hres |-> <<>>, out |-> <<>>,
                             resp |-> success_response(
                                          "Files uploaded successfully",
                                          [files |-> saved_files,
                                           count |-> Len(saved_files)])]]

\* GET /api/download/<filename>: the output folder is looked at first, then the
\* upload folder; send_file raises on a directory.  The response to a file
\* found is the file itself.
download_file(filename, ups, outs, nid) ==
    LET found == IF filename \in DOMAIN outs THEN <<outs[filename]>>
                 ELSE IF filename \in DOMAIN ups THEN <<ups[filename]>>
                 ELSE <<>>
    IN  refused("download", ups, outs, nid,
                IF Len(found) = 0 THEN error_response("File not found", "None", 404)
                ELSE IF found[1].kind = "dir"
                THEN error_response("Error downloading file", "IsADirectoryError", 500)
                ELSE [file |-> found[1], download_name |-> filename, status |-> 200])

\* an exception leaves the handler: no response is built
reraised(message, e) == [status |-> 0, raised |-> e]

\* except Exception as e: return error_response(message, error=e, status=500)
caught(message, e) == error_response(message, e, 500)

\* POST /api/pdf/rotate.  The angle is converted before the upload is saved;
\* PDFHandler has no method rotate_pages, so the call raises AttributeError.
rotate_pdf(file, angle, pages, ups, outs, nid) ==
    IF Len(file) = 0
    THEN refused("rotate", ups, outs, nid,
                 error_response("No PDF file provided", "None", 400))
    ELSE IF ~py_int(angle).ok
    THEN refused("rotate", ups, outs, nid, caught("Error rotating PDF", "ValueError"))
    ELSE LET s == save_uploaded_file(file[1], nid)
             ups2 == ups @@ (s.filepath :> file[1].content)
             output_id == generate_file_id(s.file_id)
             output_path == [id |-> output_id, suffix |-> "_rotated.pdf"]
             page_list == IF truthy(pages) THEN parse_page_range(pages) ELSE ReturnsNone
         IN  IF s.status = "raised"
             THEN raised_in_save("rotate", ups, outs, s, "Error rotating PDF")
             ELSE IF s.status = "rejected"
             THEN refused("rotate", ups, outs, nid,
                          error_response("Invalid file", "None", 400))
             ELSE [uploads |-> ups2, outputs |-> outs, next_id |-> output_id,
                   last |-> [endpoint |-> "rotate",
                             inputs |-> <<file[1].content>>, password |-> "",
                             page_list |-> page_list, hres |-> <<>>,
                             out |-> <<output_path>>,
                             resp |-> caught("Error rotating PDF",
                                             IF page_list.tag = "error"
                                             THEN "ValueError" ELSE "AttributeError")]]

(***************************************************************************)
(* Paths as the strings the code builds: the folders are the configured    *)
(* defaults, relative to the working directory.                            *)
(***************************************************************************)
UPLOAD_FOLDER == <<"u", "p", "l", "o", "a", "d", "s">>
TEMP_FOLDER == <<"t", "e", "m", "p">>

\* the upload is kept under the name the client gave it
client_filename(file_id, filename) == filename

\* f"{file_id}.{ext}" of save_uploaded_file, ext the lowered extension of the
\* secured name
saved_filename(file_id, filename) ==
    uuid_str(file_id) \o <<".">> \o lower(rsplit_dot(secure_filename(filename))[2])

\* the literal tail of an output's name
suffix_chars(suffix) ==
    CASE suffix = "" -> <<>>
      [] suffix = "_merged.pdf" ->
           <<"_", "m", "e", "r", "g", "e", "d", ".", "p", "d", "f">>
      [] suffix = "_modified.pdf" ->
           <<"_", "m", "o", "d", "i", "f", "i", "e", "d", ".", "p", "d", "f">>
      [] suffix = "_protected.pdf" ->
           <<"_", "p", "r", "o", "t", "e", "c", "t", "e", "d", ".", "p", "d", "f">>
      [] suffix = "_unlocked.pdf" ->
           <<"_", "u", "n", "l", "o", "c", "k", "e", "d", ".", "p", "d", "f">>
      [] suffix = "_compressed.pdf" ->
           <<"_", "c", "o", "m", "p", "r", "e", "s", "s", "e", "d", ".", "p", "d", "f">>
      [] suffix = "_rotated.pdf" ->
           <<"_", "r", "o", "t", "a", "t", "e", "d", ".", "p", "d", "f">>
      [] suffix = "/page_1.pdf" ->
           <<"/", "p", "a", "g", "e", "_", "1", ".", "p", "d", "f">>
      [] suffix = "/page_2.pdf" ->
           <<"/", "p", "a", "g", "e", "_", "2", ".", "p", "d", "f">>
      [] suffix = "/page_3.pdf" ->
           <<"/", "p", "a", "g", "e", "_", "3", ".", "p", "d", "f">>
      [] suffix = "_text.txt" -> <<"_", "t", "e", "x", "t", ".", "t", "x", "t">>
      [] suffix = "_jpg" -> <<"_", "j", "p", "g">>
      [] suffix = "_jpg/page_1.jpg" -> <<"_", "j", "p", "g", "/", "p", "a", "g", "e", "_", "1", ".", "j", "p", "g">>
      [] suffix = "_jpg/page_2.jpg" -> <<"_", "j", "p", "g", "/", "p", "a", "g", "e", "_", "2", ".", "j", "p", "g">>
      [] suffix = "_jpg/page_3.jpg" -> <<"_", "j", "p", "g", "/", "p", "a", "g", "e", "_", "3", ".", "j", "p", "g">>
      [] OTHER -> <<"/", "p", "a", "g", "e", "_", "n", ".", "p", "d", "f">>

\* the names of the entries of the upload and of the output folder
upload_name(key) == uuid_str(key.id) \o <<".">> \o key.ext
output_name(key) == uuid_str(key.id) \o suffix_chars(key.suffix)

\* str.startswith
startswith(s, prefix) ==
    Len(prefix) <= Len(s) /\ SubSeq(s, 1, Len(prefix)) = prefix

\* os.listdir(OUTPUT_FOLDER): the files and directories directly in it
listed(outs) == {k \in DOMAIN outs : ~contains(output_name(k), "/")}

\* the files in a directory of the output folder
files_in(outs, d) ==
    {k \in DOMAIN outs : k.id = d.id /\ contains(output_name(k), "/")}

\* what shutil.rmtree or os.remove takes away with an entry of the output folder
removed_with(outs, ks) ==
    ks \cup UNION {files_in(outs, d) : d \in {k \in ks : outs[k].kind = "dir"}}

\* a folder without the entries named
without(folder, ks) == [k \in DOMAIN folder \ ks |-> folder[k]]

\* the paths written by an endpoint that saves one upload and writes outputs:
\* file.save(filepath), os.makedirs and the handler's files
written_paths(file, ups, outs, r) ==
    {path_join(UPLOAD_FOLDER, saved_filename(k.id, file[1].filename)) :
         k \in DOMAIN r.uploads \ DOMAIN ups}
    \cup {path_join(OUTPUT_FOLDER, output_name(k)) :
              k \in DOMAIN r.outputs \ DOMAIN outs}

\* the outcome of such an endpoint, with the paths it has written
with_written(file, ups, outs, r) ==
    [r EXCEPT !.last = [touched |-> written_paths(file, ups, outs, r)] @@ @]

\* a zip archive of the entries named
Archive(names) == [kind |-> "zip", names |-> names]

\* GET /api/download/split/<file_id>; file_id is any string without a slash.
\* "." and ".." name directories that always exist: the output folder and the
\* working directory.  The archive is opened for writing before the folder
\* is listed, and os.listdir raises on a file.
download_split_zip(file_id, ups, outs, tmp, nid) ==
    LET named == {k \in listed(outs) : output_name(k) = file_id}
        exists == file_id \in {<<".">>, <<".", ".">>} \/ named # {}
        is_dir == file_id \in {<<".">>, <<".", ".">>}
                  \/ \E k \in named : outs[k].kind = "dir"
        names == IF file_id = <<".", ".">>
                 THEN {UPLOAD_FOLDER, OUTPUT_FOLDER, TEMP_FOLDER}
                 ELSE IF file_id = <<".">>
                 THEN {output_name(k) : k \in listed(outs)}
                 ELSE {output_name(k) : k \in UNION {files_in(outs, d) : d \in named}}
        zip_name == file_id \o <<"_", "s", "p", "l", "i", "t", ".", "z", "i", "p">>
        zip_path == path_join(TEMP_FOLDER, zip_name)
        request == [endpoint |-> "download_split", inputs |-> <<>>, password |-> "",
                    page_list |-> NotParsed, hres |-> <<>>, out |-> <<>>,
                    file_id |-> file_id]
    IN  IF ~exists
        THEN [uploads |-> ups, outputs |-> outs, temp |-> tmp, next_id |-> nid,
              last |-> [touched |-> {},
                        resp |-> error_response("Folder not found", "None", 404)]
                       @@ request]
        ELSE IF ~is_dir
        THEN [uploads |-> ups, outputs |-> outs,
              temp |-> (zip_name :> Archive({})) @@ tmp, next_id |-> nid,
              last |-> [touched |-> {zip_path},
                        resp |-> caught("Error creating zip file",
                                        "NotADirectoryError")]
                       @@ request]
        ELSE [uploads |-> ups, outputs |-> outs,
              temp |-> (zip_name :> Archive(names)) @@ tmp, next_id |-> nid,
              last |-> [touched |-> {zip_path},
                        resp |-> [file |-> Archive(names),
                                  download_name |-> zip_name, status |-> 200]]
                       @@ request]

\* DELETE /api/files/<file_id>: every entry of the three folders whose name
\* starts with file_id is removed, a directory with all that is in it
delete_file(file_id, ups, outs, tmp, nid) ==
    LET out_ks == {k \in listed(outs) : startswith(output_name(k), file_id)}
        up_ks == {k \in DOMAIN ups : startswith(upload_name(k), file_id)}
        tmp_ks == {n \in DOMAIN tmp : startswith(n, file_id)}
        touched == {path_join(OUTPUT_FOLDER, output_name(k)) : k \in out_ks}
                   \cup {path_join(UPLOAD_FOLDER, upload_name(k)) : k \in up_ks}
                   \cup {path_join(TEMP_FOLDER, n) : n \in tmp_ks}
    IN  [uploads |-> without(ups, up_ks),
         outputs |-> without(outs, removed_with(outs, out_ks)),
         temp |-> without(tmp, tmp_ks), next_id |-> nid,
         last |-> [endpoint |-> "delete", inputs |-> <<>>, password |-> "",
                   page_list |-> NotParsed, hres |-> <<>>, out |-> <<>>,
                   file_id |-> file_id, touched |-> touched,
                   resp |-> IF touched # {}
                            THEN success_response("File deleted successfully", <<>>)
                            ELSE error_response("File not found", "None", 404)]]

\* POST /api/cleanup: what is older than the hours given is removed from the
\* output and the temp folder.  Every file of a run is younger than an hour:
\* all of them are older than the cutoff when hours <= 0, none when hours >= 1.
cleanup_files(hours, ups, outs, tmp, nid) ==
    LET h == py_int(hours)
        out_ks == IF h.ok /\ h.val <= 0 THEN listed(outs) ELSE {}
        tmp_ks == IF h.ok /\ h.val <= 0 THEN DOMAIN tmp ELSE {}
        gone == removed_with(outs, out_ks)
        touched == {path_join(OUTPUT_FOLDER, output_name(k)) : k \in out_ks}
                   \cup {path_join(TEMP_FOLDER, n) : n \in tmp_ks}
        request == [endpoint |-> "cleanup", inputs |-> <<>>, password |-> "",
                    page_list |-> NotParsed, hres |-> <<>>, out |-> <<>>,
                    hours |-> hours]
    IN  IF ~h.ok
        THEN [uploads |-> ups, outputs |-> outs, temp |-> tmp, next_id |-> nid,
              last |-> [touched |-> {},
                        resp |-> caught("Error during cleanup", "ValueError")]
                       @@ request]
        ELSE [uploads |-> ups, outputs |-> without(outs, gone),
              temp |-> without(tmp, tmp_ks), next_id |-> nid,
              last |-> [touched |-> touched,
                        resp |-> success_response(
                                     "Cleanup completed",
                                     [deleted_files |->
                                          Cardinality({k \in gone :
                                                           outs[k].kind # "dir"})
                                          + Cardinality(tmp_ks)])]
                       @@ request]

(***************************************************************************)
(* Converter.pdf_to_jpg (utils/converter.py) and its endpoint.  pdf_to_png *)
(* is the same code with another extension.  A rendering strategy saves    *)
(* the pages one by one and may raise at any of them.                      *)
(***************************************************************************)
\* f"page_{i + 1}.jpg" in the directory f"{file_id}_jpg"
image_file(n) ==
    CASE n = 1 -> "_jpg/page_1.jpg" [] n = 2 -> "_jpg/page_2.jpg"
      [] OTHER -> "_jpg/page_3.jpg"

Image(page) == [kind |-> "image", pages |-> <<page>>, pw |-> ""]

\* output_paths is one list for both strategies: it is not emptied before the
\* second one starts
kept_output_paths(first, second) == first \o second

\* Converter.pdf_to_jpg(input_path, output_dir, dpi): pdf2image is tried when it
\* was imported; k1 is the number of pages it saves before it raises (all of
\* them: it does not raise).  PyMuPDF follows when pdf2image is not there or
\* has raised; k2 is the number of pages it saves before it raises, and it
\* answers [] when it has raised.  Neither reads a file that is no PDF or an
\* encrypted one.
Converter_pdf_to_jpg(ups, input_path, output_dir, available, k1, k2) ==
    LET content == ups[input_path]
        n == Len(content.pages)
        readable == content.kind = "pdf" /\ content.pw = ""
        paths(m) == [i \in 1..m |-> [id |-> output_dir.id, suffix |-> image_file(i)]]
        s1 == IF available /\ readable THEN (IF k1 < n THEN k1 ELSE n) ELSE 0
        done1 == available /\ readable /\ k1 >= n
        s2 == IF done1 \/ ~readable THEN 0 ELSE (IF k2 < n THEN k2 ELSE n)
        done2 == ~done1 /\ readable /\ k2 >= n
        saved == IF s1 > s2 THEN s1 ELSE s2
    IN  [res |-> IF done1 THEN paths(n)
                 ELSE IF done2 THEN kept_output_paths(paths(s1), paths(n))
                 ELSE <<>>,
         out |-> [f \in {paths(saved)[i] : i \in 1..saved} |->
                     Image(content.pages[CHOOSE i \in 1..saved : paths(saved)[i] = f])]]

\* the text after /api/download/images/ in a download_url
images_url(name) == [route |-> "images", name |-> name]

\* POST /api/convert/pdf-to-jpg; dpi is the 'dpi' field
pdf_to_jpg(file, dpi, available, k1, k2, ups, outs, nid) ==
    IF Len(file) = 0
    THEN refused("pdf_to_jpg", ups, outs, nid,
                 error_response("No PDF file provided", "None", 400))
    ELSE IF ~py_int(dpi).ok
    THEN refused("pdf_to_jpg", ups, outs, nid,
                 caught("Error converting PDF to JPG", "ValueError"))
    ELSE LET s == save_uploaded_file(file[1], nid)
             ups2 == ups @@ (s.filepath :> file[1].content)
             output_dir == [id |-> s.file_id, suffix |-> "_jpg"]
             c == Converter_pdf_to_jpg(ups2, s.filepath, output_dir, available, k1, k2)
         IN  IF s.status = "raised"
             THEN raised_in_save("pdf_to_jpg", ups, outs, s,
                                 "Error converting PDF to JPG")
             ELSE IF s.status = "rejected"
             THEN refused("pdf_to_jpg", ups, outs, nid,
                          error_response("Invalid file", "None", 400))
             ELSE [uploads |-> ups2,
                   outputs |-> (outs @@ (output_dir :> Directory)) @@ c.out,
                   next_id |-> s.file_id,
                   last |-> [endpoint |-> "pdf_to_jpg",
                             inputs |-> <<file[1].content>>, password |-> "",
                             page_list |-> NotParsed, hres |-> <<c.res>>,
                             out |-> <<output_dir>>,
                             resp |-> IF truthy(c.res)
                                      THEN success_response(
                                               "PDF converted to JPG successfully",
                                               [file_id |-> s.file_id,
                                                images |-> c.res,
                                                count |-> Len(c.res),
                                                download_url |->
                                                    images_url(output_name(output_dir))])
                                      ELSE error_response(
                                               "Failed to convert PDF to JPG",
                                               "None", 500)]]

\* GET /api/download/images/<folder_id>: the folder looked for is folder_id
\* followed by _images, _jpg or _png, the first that exists; its files are
\* zipped into the temp folder
download_images_zip(folder_id, ups, outs, tmp, nid) ==
    LET folders == <<folder_id \o <<"_", "i", "m", "a", "g", "e", "s">>,
                     folder_id \o <<"_", "j", "p", "g">>,
                     folder_id \o <<"_", "p", "n", "g">>>>
        exists(i) == \E k \in listed(outs) : output_name(k) = folders[i]
        zip_name == folder_id \o <<".", "z", "i", "p">>
        request == [endpoint |-> "download_images", inputs |-> <<>>, password |-> "",
                    page_list |-> NotParsed, hres |-> <<>>, out |-> <<>>,
                    folder_id |-> folder_id]
    IN  IF \A i \in 1..3 : ~exists(i)
        THEN [uploads |-> ups, outputs |-> outs, temp |-> tmp, next_id |-> nid,
              last |-> [resp |-> error_response("Folder not found", "None", 404)]
                       @@ request]
        ELSE LET i == CHOOSE j \in 1..3 : exists(j) /\ \A h \in 1..(j - 1) : ~exists(h)
                 d == CHOOSE k \in listed(outs) : output_name(k) = folders[i]
                 names == {output_name(k) : k \in files_in(outs, d)}
             IN  IF outs[d].kind # "dir"
                 THEN [uploads |-> ups, outputs |-> outs,
                       temp |-> (zip_name :> Archive({})) @@ tmp, next_id |-> nid,
                       last |-> [resp |-> caught("Error creating zip file",
                                                 "NotADirectoryError")]
                                @@ request]
                 ELSE [uploads |-> ups, outputs |-> outs,
                       temp |-> (zip_name :> Archive(names)) @@ tmp, next_id |-> nid,
                       last |-> [resp |-> [file |-> Archive(names),
                                           download_name |-> zip_name,
                                           status |-> 200]]
                                @@ request]

(***************************************************************************)
(* PDFHandler.extract_text and its endpoint.  The text of a document is    *)
(* the list of its pages: every page of a document carries text.           *)
(***************************************************************************)
\* a Python bool where a path is expected
py_bool(b) == [bool |-> b]

TextFile(text) == [kind |-> "text", pages |-> text, pw |-> ""]

\* PDFHandler.extract_text(input_path, output_path, output_format='txt'):
\* os.path.dirname(output_path) raises TypeError on an output_path that is no
\* path; the method answers a dict in every case
PDFHandler_extract_text(ups, input_path, output_path) ==
    LET v == validate_pdf_path(ups, input_path)
        o == safe_open_pdf(ups[input_path], "")
        text == ups[input_path].pages
    IN  IF ~v.valid THEN failure(v.error)
        ELSE IF ~o.opened THEN failure(o.error)
        ELSE IF ~truthy(text)
        THEN failure("No text found in PDF. The PDF may contain only images.")
        ELSE IF "suffix" \notin DOMAIN output_path THEN failure("TypeError")
        ELSE [res |-> [success |-> TRUE, output_path |-> output_path,
                       text_preview |-> text, char_count |-> Len(text)],
              out |-> <<TextFile(text)>>]

\* POST /api/pdf/extract-text.  The handler is called as extract_text(filepath,
\* use_ocr): the flag arrives as its output_path.  open(output_path, 'w') makes
\* the file, then f.write(text) raises TypeError on a text that is a dict.
extract_text(file, use_ocr, ups, outs, nid) ==
    IF Len(file) = 0
    THEN refused("extract_text", ups, outs, nid,
                 error_response("No PDF file provided", "None", 400))
    ELSE LET s == save_uploaded_file(file[1], nid)
             ups2 == ups @@ (s.filepath :> file[1].content)
             h == PDFHandler_extract_text(ups2, s.filepath, py_bool(use_ocr))
             text == h.res
             output_id == generate_file_id(s.file_id)
             output_path == [id |-> output_id, suffix |-> "_text.txt"]
             request == [endpoint |-> "extract_text", inputs |-> <<file[1].content>>,
                         password |-> "", page_list |-> NotParsed,
                         hres |-> <<h.res>>, out |-> <<output_path>>,
                         use_ocr |-> use_ocr]
         IN  IF s.status = "raised"
             THEN raised_in_save("extract_text", ups, outs, s, "Error extracting text")
             ELSE IF s.status = "rejected"
             THEN refused("extract_text", ups, outs, nid,
                          error_response("Invalid file", "None", 400))
             ELSE IF "success" \in DOMAIN text
             THEN [uploads |-> ups2, outputs |-> outs @@ (output_path :> EmptyFile),
                   next_id |-> output_id,
                   last |-> [resp |-> caught("Error extracting text", "TypeError")]
                            @@ request]
             ELSE [uploads |-> ups2,
                   outputs |-> outs @@ (output_path :> TextFile(text)),
                   next_id |-> output_id,
                   last |-> [resp |-> success_response(
                                          "Text extracted successfully",
                                          [file_id |-> output_id, text |-> text,
                                           full_text_length |-> Len(text),
                                           download_url |-> output_path])]
                            @@ request]

(***************************************************************************)
(* PDFHandler.rotate_pdf, and the methods of PDFHandler as a caller other  *)
(* than the endpoints may use them: on a file in place, with any argument. *)
(***************************************************************************)
\* round(num / den) for num >= 0 and den > 0: Python rounds a half to the even
\* neighbour
py_round(num, den) ==
    LET q == num \div den
        r == num % den
    IN  IF 2 * r < den THEN q
        ELSE IF 2 * r > den THEN q + 1
        ELSE IF q % 2 = 0 THEN q ELSE q + 1

\* the angle as given, reduced modulo 360 only
reduced_angle(angle) == angle % 360

\* angle = int(angle) % 360, rounded to a multiple of 90 when it is none
normalized_angle(angle) ==
    LET a == angle % 360
    IN  IF a \in {0, 90, 180, 270} THEN a
        ELSE (py_round(a, 90) * 90) % 360

\* page.rotation of every page: 0 in a document nobody has rotated
rotation_of(content) ==
    IF "rotation" \in DOMAIN content THEN content.rotation
    ELSE [i \in 1..Len(content.pages) |-> 0]

\* page.set_rotation(page.rotation + angle) for the pages listed, in order;
\* set_rotation keeps the value modulo 360
RECURSIVE set_rotations(_, _, _)
set_rotations(rotation, pages, angle) ==
    IF Len(pages) = 0 THEN rotation
    ELSE set_rotations(
             IF 1 <= pages[1] /\ pages[1] <= Len(rotation)
             THEN [rotation EXCEPT ![pages[1]] = (@ + angle) % 360]
             ELSE rotation,
             Tail(pages), angle)

\* PDFHandler.rotate_pdf(input_path, output_path, angle, pages) with pages None
\* or a list of numbers
PDFHandler_rotate_pdf(ups, input_path, output_path, angle, pages) ==
    LET v == validate_pdf_path(ups, input_path)
        content == ups[input_path]
        o == safe_open_pdf(content, "")
        total_pages == Len(content.pages)
        page_nums == IF pages.tag = "none" THEN py_range(1, total_pages + 1)
                     ELSE pages.pages
        rotated == SelectSeq(page_nums, LAMBDA p : 1 <= p /\ p <= total_pages)
    IN  IF ~v.valid THEN failure(v.error)
        ELSE IF ~o.opened THEN failure(o.error)
        ELSE [res |-> [success |-> TRUE, output_path |-> output_path,
                       pages_rotated |-> Len(rotated)],
              out |-> <<[kind |-> "pdf", pages |-> content.pages, pw |-> "",
                         rotation |-> set_rotations(rotation_of(content), page_nums,
                                                    normalized_angle(angle))]>>]

\* where a caller of a method has put its input, and where it wants the output
InputPath == [id |-> 1, ext |-> <<"p", "d", "f">>]
OutputPath == [id |-> 2, suffix |-> "_modified.pdf"]

\* a call of a method on the file in place: what it returns and writes
called(method, content, args, h) ==
    [uploads |-> (InputPath :> content),
     outputs |-> written(<<>>, OutputPath, h),
     next_id |-> OutputPath.id,
     last |-> [endpoint |-> method, inputs |-> <<content>>, password |-> "",
               page_list |-> NotParsed, hres |-> <<h.res>>, out |-> <<OutputPath>>,
               resp |-> [status |-> 0], args |-> args]]

(***************************************************************************)
(* The service: requests are served one after the other, each by its       *)
(* handler.                                                                *)
(***************************************************************************)
NoRequest ==
    [endpoint |-> "none", inputs |-> <<>>, password |-> "", page_list |-> NotParsed,
     hres |-> <<>>, out |-> <<>>, resp |-> [status |-> 0]]

\* the 'files' field of a request: absent (the empty list), or some files
FileLists == UNION {[1..k -> Files] : k \in 0..MaxFiles}

\* a client may also upload what it has downloaded from the output folder
Downloaded ==
    {[filename |-> PdfName, content |-> outputs[n]] :
         n \in {m \in DOMAIN outputs : outputs[m].kind # "dir"}}

\* the 'file' field of a request: absent, or one file
FileField == {<<>>} \cup {<<f>> : f \in Files \cup Downloaded}

Init ==
    /\ page_string = <<>>
    /\ parsed = NotParsed
    /\ pc = "idle"
    /\ uploads = <<>>
    /\ outputs = <<>>
    /\ temp = <<>>
    /\ running = <<>>
    /\ next_id = 0
    /\ last = NoRequest
    /\ served = 0

\* the state after a handler has run on a request with the files given; the
\* process serves requests as long as it runs
Serve(files, r) ==
    /\ pc = "idle"
    /\ uploads' = r.uploads
    /\ outputs' = r.outputs
    /\ temp' = IF "temp" \in DOMAIN r THEN r.temp ELSE temp
    /\ next_id' = r.next_id
    /\ last' = [submitted |-> filenames(files)] @@ r.last
    /\ served' = served + 1
    /\ UNCHANGED <<page_string, parsed, pc, running>>

Merge(limit) ==
    /\ served < limit
    /\ \E files \in FileLists : Serve(files, merge_pdfs(files, uploads, outputs, next_id))

RemovePages(limit) ==
    /\ served < limit
    /\ \E file \in FileField, pages \in PageSpecs :
           Serve(file, remove_pages(file, pages, uploads, outputs, next_id))

Protect(limit) ==
    /\ served < limit
    /\ \E file \in FileField, password \in Passwords \cup {""} :
           Serve(file, protect_pdf(file, password, uploads, outputs, next_id))

Unlock(limit) ==
    /\ served < limit
    /\ \E file \in FileField, password \in Passwords \cup {""} :
           Serve(file, unlock_pdf(file, password, uploads, outputs, next_id))

Split(limit) ==
    /\ served < limit
    /\ \E file \in FileField, pages \in PageSpecs :
           Serve(file, split_pdf(file, pages, uploads, outputs, next_id))

MergeRequest == Merge(MaxRequests)
RemovePagesRequest == RemovePages(MaxRequests)
ProtectRequest == Protect(MaxRequests)
UnlockRequest == Unlock(MaxRequests)
SplitRequest == Split(MaxRequests)

Next ==
    \/ MergeRequest \/ RemovePagesRequest \/ ProtectRequest \/ UnlockRequest
    \/ SplitRequest

Spec == Init /\ [][Next]_vars

(***************************************************************************)
(* The security endpoints alone, over longer runs: a client protects,      *)
(* unlocks and downloads, and may upload again what an earlier request     *)
(* produced.                                                               *)
(***************************************************************************)
ProtectAgain == Protect(MaxSecurityRequests)
UnlockAgain == Unlock(MaxSecurityRequests)

\* a name no file has
MissingFile == [id |-> 0, suffix |-> "_protected.pdf"]

Download(limit) ==
    /\ served < limit
    /\ \E filename \in DOMAIN outputs \cup DOMAIN uploads \cup {MissingFile} :
           Serve(<<>>, download_file(filename, uploads, outputs, next_id))

DownloadRequest == Download(MaxSecurityRequests)

NextSecurity == ProtectAgain \/ UnlockAgain \/ DownloadRequest

SpecSecurity == Init /\ [][NextSecurity]_vars

(***************************************************************************)
(* The compression endpoint, with every outcome of its two library steps.  *)
(***************************************************************************)
Qualities == {"low", "medium", "high"}

Compress(limit) ==
    /\ served < limit
    /\ \E file \in FileField, quality \in Qualities :
         \E m1 \in (IF Len(file) = 0 THEN {[ok |-> FALSE, size |-> 0]}
                    ELSE Method1Outcomes(file[1].content)),
            m2 \in (IF Len(file) = 0 THEN {[kind |-> "raised", left |-> "untouched", size |-> 0]}
                    ELSE Method2Outcomes(file[1].content)) :
             Serve(file, compress_pdf(file, quality, m1, m2, uploads, outputs, next_id))

CompressRequest == Compress(MaxRequests)

NextCompress == CompressRequest

SpecCompress == Init /\ [][NextCompress]_vars

(***************************************************************************)
(* The upload endpoint, with file names of every kind: allowed, refused,   *)
(* empty, and a name that is all extension.                                *)
(***************************************************************************)
DotName == <<".", "p", "d", "f">>
UpperName == <<"A", ".", "P", "D", "F">>
BareName == <<"a">>
NoName == <<>>

UploadedFiles ==
    {[filename |-> n, content |-> c] :
         n \in {PdfName, ExeName, DotName, UpperName, BareName, NoName},
         c \in {PDF(doc(1), ""), Garbage, EmptyFile}}

UploadLists == UNION {[1..k -> UploadedFiles] : k \in 0..MaxFiles}

\* the first request of a run
Upload ==
    /\ served = 0
    /\ \E files \in UploadLists :
           Serve(files, upload_files(files, uploads, outputs, next_id))

NextUpload == Upload

SpecUpload == Init /\ [][NextUpload]_vars

(***************************************************************************)
(* The endpoints in which a conversion, a library call or file I/O raises. *)
(***************************************************************************)
Angles == {<<"9", "0">>, <<"a">>}

Rotate(limit) ==
    /\ served < limit
    /\ \E file \in FileField, angle \in Angles, pages \in PageSpecs :
           LET r == rotate_pdf(file, angle, pages, uploads, outputs, next_id)
           IN  Serve(file, [r EXCEPT !.last = [angle |-> angle] @@ @])

RotateRequest == Rotate(MaxRequests)

NextRaising == RotateRequest \/ RemovePagesRequest \/ SplitRequest \/ Upload

SpecRaising == Init /\ [][NextRaising]_vars

(***************************************************************************)
(* The life of the process: the folders exist from start-up, requests are  *)
(* served, and app.run returns on shutdown.  No code runs after it, and    *)
(* none is registered for exit or for a signal.                            *)
(***************************************************************************)
Shutdown ==
    /\ pc = "idle"
    /\ pc' = "stopped"
    /\ UNCHANGED <<page_string, parsed, uploads, outputs, temp, running, next_id, last,
                 served>>

NextLifecycle == Upload \/ ProtectRequest \/ Shutdown

SpecLifecycle == Init /\ [][NextLifecycle]_vars

(***************************************************************************)
(* The requests whose file name, identifier or parameter reaches a path    *)
(* that is written or removed: an upload under any name, the archive of a  *)
(* split, the removal of a file and the clean-up.  Each records the paths  *)
(* it has written or removed.                                              *)
(***************************************************************************)
MaxStorageRequests == 3

TraversalName == <<".", ".", "/", "a", ".", "p", "d", "f">>

StoredFileField ==
    {<<>>} \cup {<<[filename |-> n, content |-> PDF(doc(1), "")]>> :
                     n \in {PdfName, ExeName, TraversalName}}

\* the identifier in the URL: one handed out, the start of one, or a dot name
UrlIds == {uuid_str(1), <<"1">>, <<".">>, <<".", ".">>}

Hours == {<<"0">>, <<"2", "4">>, <<"a">>}

SplitStored ==
    /\ served < MaxStorageRequests
    /\ \E file \in StoredFileField, pages \in {<<"1">>, <<"a">>} :
           Serve(file, with_written(file, uploads, outputs,
                                    split_pdf(file, pages, uploads, outputs, next_id)))

DownloadSplitZip ==
    /\ served < MaxStorageRequests
    /\ \E file_id \in UrlIds :
           Serve(<<>>, download_split_zip(file_id, uploads, outputs, temp, next_id))

DeleteFile ==
    /\ served < MaxStorageRequests
    /\ \E file_id \in UrlIds :
           Serve(<<>>, delete_file(file_id, uploads, outputs, temp, next_id))

Cleanup ==
    /\ served < MaxStorageRequests
    /\ \E hours \in Hours :
           Serve(<<>>, cleanup_files(hours, uploads, outputs, temp, next_id))

NextStorage == SplitStored \/ DownloadSplitZip \/ DeleteFile \/ Cleanup

SpecStorage == Init /\ [][NextStorage]_vars

(***************************************************************************)
(* The conversion of a PDF to images and the download of the images: every *)
(* outcome of the two rendering strategies, then a GET of an images URL.   *)
(***************************************************************************)
MaxConvertRequests == 3

ConvertedFileField ==
    {<<>>} \cup {<<f>> : f \in {[filename |-> PdfName, content |-> PDF(doc(MaxPages), "")],
                               [filename |-> PdfName, content |-> Garbage],
                               [filename |-> ExeName, content |-> PDF(doc(1), "")]}}

Dpis == {<<"7", "2">>, <<"a">>}

\* what a client puts after /api/download/images/: an identifier handed out,
\* alone or as a download_url gives it
ImageUrlIds ==
    {uuid_str(i) \o t : i \in 1..MaxConvertRequests, t \in {<<>>, <<"_", "j", "p", "g">>}}

PdfToJpg ==
    /\ served < MaxConvertRequests
    /\ \E file \in ConvertedFileField, dpi \in Dpis, available \in BOOLEAN,
          k1 \in 0..MaxPages, k2 \in 0..MaxPages :
           Serve(file, pdf_to_jpg(file, dpi, available, k1, k2,
                                  uploads, outputs, next_id))

DownloadImagesZip ==
    /\ served < MaxConvertRequests
    /\ \E folder_id \in ImageUrlIds :
           Serve(<<>>, download_images_zip(folder_id, uploads, outputs, temp, next_id))

NextConvert == PdfToJpg \/ DownloadImagesZip

SpecConvert == Init /\ [][NextConvert]_vars

(***************************************************************************)
(* The text extraction endpoint, over two requests.                        *)
(***************************************************************************)
ExtractText(limit) ==
    /\ served < limit
    /\ \E file \in FileField, use_ocr \in BOOLEAN :
           Serve(file, extract_text(file, use_ocr, uploads, outputs, next_id))

ExtractTextRequest == ExtractText(MaxSecurityRequests)

NextExtract == ExtractTextRequest

SpecExtract == Init /\ [][NextExtract]_vars

(***************************************************************************)
(* Calls of PDFHandler.rotate_pdf and PDFHandler.remove_pages with any     *)
(* angle and any list of page numbers, repeated and out of range ones too. *)
(***************************************************************************)
MaxAngle == 450

HandlerContents ==
    {PDF(doc(n), "") : n \in 0..(MaxPages + 1)} \cup {PDF(doc(1), "pw1"), Garbage}

\* lists of at most two page numbers, from 0 to one beyond the longest document
PageLists ==
    UNION {[1..k -> 0..(MaxPages + 2)] : k \in 0..2}

\* one call in a run
RotatePdfCall ==
    /\ served = 0
    /\ \E content \in {PDF(doc(1), ""), PDF(doc(2), ""), Garbage},
          angle \in (0 - MaxAngle)..MaxAngle,
          pages \in {ReturnsNone, ReturnsList(<<1>>), ReturnsList(<<2, 2>>)} :
           Serve(<<>>, called("PDFHandler.rotate_pdf", content,
                              [angle |-> angle, pages |-> pages],
                              PDFHandler_rotate_pdf((InputPath :> content), InputPath,
                                                    OutputPath, angle, pages)))

RemovePagesCall ==
    /\ served = 0
    /\ \E content \in HandlerContents, pages_to_remove \in PageLists :
           Serve(<<>>, called("PDFHandler.remove_pages", content,
                              [pages_to_remove |-> pages_to_remove],
                              PDFHandler_remove_pages((InputPath :> content), InputPath,
                                                      OutputPath, pages_to_remove)))

NextHandler == RotatePdfCall \/ RemovePagesCall

SpecHandler == Init /\ [][NextHandler]_vars

(***************************************************************************)
(* Requests in parallel: app.run serves each request in a thread of its    *)
(* own, and no handler takes a lock.  A request that writes a file is in   *)
(* progress from the moment it opens the file until it has answered.       *)
(***************************************************************************)
MaxThreads == 2
MaxParallelRequests == 3

Threads == 1..MaxThreads

\* os.path.exists(folder_path) of download_split_zip
split_folder_exists(file_id, outs) ==
    file_id \in {<<".">>, <<".", ".">>}
    \/ \E k \in listed(outs) : output_name(k) = file_id

\* f"{file_id}_split.zip"
split_zip_name(file_id) ==
    file_id \o <<"_", "s", "p", "l", "i", "t", ".", "z", "i", "p">>

\* os.listdir(folder_path): the entries the archive gets
split_zip_entries(file_id, outs) ==
    IF file_id = <<".", ".">> THEN {UPLOAD_FOLDER, OUTPUT_FOLDER, TEMP_FOLDER}
    ELSE IF file_id = <<".">> THEN {output_name(k) : k \in listed(outs)}
    ELSE {output_name(k) :
              k \in UNION {files_in(outs, d) :
                               d \in {j \in listed(outs) : output_name(j) = file_id}}}

\* the identifier in the URL: the one the split answered with, the start of it,
\* or the output folder itself
SplitUrlIds == {uuid_str(1), <<"1">>, <<".">>}

Begun == served + Cardinality(DOMAIN running)

\* a request not served in parallel answers in one step
Answered(resp) ==
    /\ last' = [NoRequest EXCEPT !.endpoint = "parallel", !.resp = resp]
    /\ served' = served + 1

\* GET /api/download/split/<file_id> up to zipfile.ZipFile(zip_path, 'w'), which
\* creates the archive or empties the one that is there
OpenSplitZip(t) ==
    /\ pc = "idle" /\ t \notin DOMAIN running /\ Begun < MaxParallelRequests
    /\ \E file_id \in SplitUrlIds :
           IF split_folder_exists(file_id, outputs)
           THEN /\ temp' = (split_zip_name(file_id) :> Archive({})) @@ temp
                /\ running' = running @@
                       (t :> [endpoint |-> "download_split", at |-> "opened",
                              name |-> split_zip_name(file_id),
                              content |-> Archive(split_zip_entries(file_id, outputs)),
                              writing |-> {path_join(TEMP_FOLDER,
                                                     split_zip_name(file_id))}])
                /\ UNCHANGED <<last, served>>
           ELSE /\ Answered(error_response("Folder not found", "None", 404))
                /\ UNCHANGED <<temp, running>>
    /\ UNCHANGED <<page_string, parsed, pc, uploads, outputs, next_id>>

\* the entries are written and the archive is closed
WriteSplitZip(t) ==
    /\ t \in DOMAIN running
    /\ running[t].endpoint = "download_split" /\ running[t].at = "opened"
    /\ temp' = (running[t].name :> running[t].content) @@ temp
    /\ running' = [running EXCEPT ![t].at = "closed"]
    /\ UNCHANGED <<page_string, parsed, pc, uploads, outputs, next_id, last, served>>

\* send_file(zip_path): the archive is read as it is now
SendSplitZip(t) ==
    /\ t \in DOMAIN running
    /\ running[t].endpoint = "download_split" /\ running[t].at = "closed"
    /\ last' = [NoRequest EXCEPT
                    !.endpoint = "download_split",
                    !.resp = [file |-> temp[running[t].name],
                              download_name |-> running[t].name, status |-> 200],
                    !.out = <<running[t].content>>]
    /\ served' = served + 1
    /\ running' = [u \in DOMAIN running \ {t} |-> running[u]]
    /\ UNCHANGED <<page_string, parsed, pc, uploads, outputs, temp, next_id>>

\* save_uploaded_file up to the opening of the file by file.save(filepath)
OpenUpload(t) ==
    /\ pc = "idle" /\ t \notin DOMAIN running /\ Begun < MaxParallelRequests
    /\ \E file \in {[filename |-> PdfName, content |-> PDF(doc(1), "")],
                    [filename |-> ExeName, content |-> PDF(doc(1), "")]} :
           LET s == save_uploaded_file(file, next_id)
           IN  IF s.status = "saved"
               THEN /\ uploads' = uploads @@ (s.filepath :> EmptyFile)
                    /\ next_id' = s.file_id
                    /\ running' = running @@
                           (t :> [endpoint |-> "upload", at |-> "opened",
                                  name |-> s.filepath, content |-> file.content,
                                  writing |-> {path_join(UPLOAD_FOLDER,
                                                         saved_filename(s.file_id,
                                                                        file.filename))}])
                    /\ UNCHANGED <<last, served>>
               ELSE /\ Answered(error_response("No valid files uploaded", "None", 400))
                    /\ UNCHANGED <<uploads, next_id, running>>
    /\ UNCHANGED <<page_string, parsed, pc, outputs, temp>>

\* file.save has written the upload, and the request answers
CloseUpload(t) ==
    /\ t \in DOMAIN running
    /\ running[t].endpoint = "upload"
    /\ uploads' = [uploads EXCEPT ![running[t].name] = running[t].content]
    /\ last' = [NoRequest EXCEPT
                    !.endpoint = "upload",
                    !.resp = success_response("Files uploaded successfully",
                                              [count |-> 1])]
    /\ served' = served + 1
    /\ running' = [u \in DOMAIN running \ {t} |-> running[u]]
    /\ UNCHANGED <<page_string, parsed, pc, outputs, temp, next_id>>

\* a split served on its own before the parallel requests
SplitFirst ==
    /\ served = 0 /\ running = <<>>
    /\ \E file \in StoredFileField :
           Serve(file, with_written(file, uploads, outputs,
                                    split_pdf(file, <<"1">>, uploads, outputs, next_id)))

NextParallel ==
    \/ SplitFirst
    \/ \E t \in Threads :
        \/ OpenSplitZip(t) \/ WriteSplitZip(t) \/ SendSplitZip(t)
        \/ OpenUpload(t) \/ CloseUpload(t)

SpecParallel == Init /\ [][NextParallel]_vars

(***************************************************************************)
(* parse_page_range on its own: one call on any page string over the       *)
(* characters below, no longer than MaxLen.                                *)
(***************************************************************************)
Chars == {"0", "1", "2", ",", "-", " ", "a"}

PageStrings == UNION {[1..k -> Chars] : k \in 0..MaxLen}

InitParse ==
    /\ page_string \in PageStrings
    /\ parsed = NotParsed
    /\ pc = "start"
    /\ uploads = <<>>
    /\ outputs = <<>>
    /\ temp = <<>>
    /\ running = <<>>
    /\ next_id = 0
    /\ last = NoRequest
    /\ served = 0

ParsePageRange ==
    /\ pc = "start"
    /\ parsed' = parse_page_range(page_string)
    /\ pc' = "done"
    /\ UNCHANGED <<page_string, uploads, outputs, temp, running, next_id, last, served>>

NextParse == ParsePageRange

SpecParse == InitParse /\ [][NextParse]_vars

(***************************************************************************)
(* The page-string grammar of the specification, read off the string and   *)
(* not off the parser: tokens between commas, blanks around a token or a   *)
(* number not counted.                                                     *)
(***************************************************************************)
Tokens(s) == split(s, ",")

\* a positive integer
IsPageToken(t) == IsDigits(t) /\ DigitsValue(t) >= 1

\* start-end with 1 <= start <= end
IsRangeToken(t) ==
    LET se == split(t, "-")
    IN  /\ Len(se) = 2
        /\ IsDigits(se[1]) /\ IsDigits(se[2])
        /\ 1 <= DigitsValue(se[1]) /\ DigitsValue(se[1]) <= DigitsValue(se[2])

InGrammar(s) ==
    /\ Len(s) > 0
    /\ \A i \in 1..Len(Tokens(s)) :
           IsPageToken(Tokens(s)[i]) \/ IsRangeToken(Tokens(s)[i])

TokenPages(t) ==
    IF IsPageToken(t) THEN {DigitsValue(t)}
    ELSE DigitsValue(split(t, "-")[1])..DigitsValue(split(t, "-")[2])

NamedPages(s) == UNION {TokenPages(Tokens(s)[i]) : i \in 1..Len(Tokens(s))}

IsAscending(l) == \A i \in 1..(Len(l) - 1) : l[i] < l[i + 1]

\* start-end, both numbers, with start > end
IsReversedRange(t) ==
    LET se == split(strip(t), "-")
    IN  /\ Len(se) = 2
        /\ IsDigits(strip(se[1])) /\ IsDigits(strip(se[2]))
        /\ DigitsValue(strip(se[1])) > DigitsValue(strip(se[2]))

\* a token that is neither an integer nor of the form start-end
IsInvalidToken(t) ==
    LET se == split(strip(t), "-")
    IN  /\ ~IsDigits(strip(t))
        /\ ~(Len(se) = 2 /\ IsDigits(strip(se[1])) /\ IsDigits(strip(se[2])))

\* C1: on a page string of the grammar (positive integers and ranges start-end
\* with 1 <= start <= end, separated by commas) parse_page_range returns exactly
\* the pages named, as an ascending list without duplicates.
C1_ReturnsNamedPagesAscending ==
    (pc = "done" /\ InGrammar(page_string))
        => /\ parsed.tag = "list"
           /\ IsAscending(parsed.pages)
           /\ SeqToSet(parsed.pages) = NamedPages(page_string)

\* "2,1-2" names page 2, then pages 1 and 2: the answer is [1, 2]
C1_Witness ==
    /\ pc = "done"
    /\ page_string = <<"2", ",", "1", "-", "2">>
    /\ parsed = ReturnsList(<<1, 2>>)

\* C2: parse_page_range raises on every page string with a range token whose
\* start is greater than its end; it returns no list for it.
C2_ReversedRangeRaises ==
    (pc = "done" /\ \E i \in 1..Len(Tokens(page_string)) :
                        IsReversedRange(Tokens(page_string)[i]))
        => parsed.tag = "error"

\* C3: parse_page_range never returns a page number below 1.
C3_NoPageBelowOne ==
    (pc = "done" /\ parsed.tag = "list")
        => \A i \in 1..Len(parsed.pages) : parsed.pages[i] >= 1

\* C4: parse_page_range answers the empty string with None, not with an error
\* and not with an empty list, and answers no other string with None.
C4_NoneExactlyOnEmpty ==
    pc = "done" => (parsed.tag = "none" <=> Len(page_string) = 0)

C4_Witness == pc = "done" /\ Len(page_string) = 0 /\ parsed = ReturnsNone

\* C5: parse_page_range raises on every page string with a token that is neither
\* an integer nor a range start-end; it never returns the pages of the other
\* tokens instead.
C5_InvalidTokenRaises ==
    (pc = "done" /\ Len(page_string) > 0
       /\ \E i \in 1..Len(Tokens(page_string)) : IsInvalidToken(Tokens(page_string)[i]))
        => parsed.tag = "error"

\* "1,,2": the empty token between the commas
C5_Witness ==
    /\ pc = "done"
    /\ page_string = <<"1", ",", ",", "2">>
    /\ parsed = Raises

(***************************************************************************)
(* The requests.                                                           *)
(***************************************************************************)
Called == Len(last.hres) = 1
HandlerSucceeded == Called /\ last.hres[1].success
OutputWritten == Len(last.out) = 1 /\ last.out[1] \in DOMAIN outputs

\* C6: a remove-pages request whose page string is malformed is answered with
\* HTTP 400 and success = false.
C6_MalformedPagesAnswered400 ==
    (last.endpoint = "remove-pages" /\ last.page_list.tag = "error")
        => (last.resp.status = 400 /\ ~last.resp.success)

\* C7: whenever the PDFHandler call of a request reports failure, the response
\* is a failure envelope without a download reference.
C7_HandlerFailureAnsweredAsFailure ==
    (Called /\ ~last.hres[1].success)
        => (~last.resp.success /\ "data" \notin DOMAIN last.resp)

\* C8: unlocking an encrypted PDF with a password other than its own is answered
\* with a failure that names the invalid password, never with a success or a
\* download link.
C8_WrongPasswordAnsweredAsFailure ==
    (last.endpoint = "unlock" /\ Called
       /\ last.inputs[1].kind = "pdf" /\ last.inputs[1].pw # ""
       /\ last.password # last.inputs[1].pw)
        => /\ ~last.resp.success
           /\ "data" \notin DOMAIN last.resp
           /\ last.resp.error = "Invalid password"

\* protect_pdf has written d under password p, and unlock_pdf on that file with
\* p writes d again, not encrypted
RoundTrips(d, p) ==
    LET u == PDFHandler_unlock_pdf(outputs, last.out[1],
                                   [id |-> 0, suffix |-> "_unlocked.pdf"], p)
    IN  /\ HandlerSucceeded
        /\ OutputWritten
        /\ outputs[last.out[1]].kind = "pdf"
        /\ outputs[last.out[1]].pw = p
        /\ outputs[last.out[1]].pages = d.pages
        /\ u.res.success
        /\ u.out = <<PDF(d.pages, "")>>

\* the unlock request has written its input again, not encrypted and readable
\* without a password
Unlocked ==
    /\ HandlerSucceeded
    /\ OutputWritten
    /\ outputs[last.out[1]] = PDF(last.inputs[1].pages, "")
    /\ safe_open_pdf(outputs[last.out[1]], "").opened

\* C9 as stated: protect_pdf succeeds on every unencrypted PDF with a non-empty
\* password and writes an encrypted document, which unlock_pdf with the same
\* password turns back into an unencrypted document with the same pages.
C9_RoundTripOfEveryPDF ==
    /\ (last.endpoint = "protect" /\ Called
          /\ last.inputs[1].kind = "pdf" /\ last.inputs[1].pw = "")
           => RoundTrips(last.inputs[1], last.password)
    /\ (last.endpoint = "unlock" /\ Called
          /\ last.inputs[1].kind = "pdf" /\ last.inputs[1].pw # ""
          /\ last.password = last.inputs[1].pw)
           => Unlocked

\* C9, amended: the same for every unencrypted PDF with at least one page.
C9_RoundTripOfPDFWithPages ==
    /\ (last.endpoint = "protect" /\ Called
          /\ last.inputs[1].kind = "pdf" /\ last.inputs[1].pw = ""
          /\ Len(last.inputs[1].pages) >= 1)
           => RoundTrips(last.inputs[1], last.password)
    /\ (last.endpoint = "unlock" /\ Called
          /\ last.inputs[1].kind = "pdf" /\ last.inputs[1].pw # ""
          /\ last.password = last.inputs[1].pw)
           => Unlocked

\* a two-page PDF was protected, the protected file was downloaded and uploaded
\* to unlock with the same password, and the two pages are back unencrypted
C9_Witness ==
    /\ last.endpoint = "unlock"
    /\ HandlerSucceeded
    /\ \E p \in DOMAIN outputs, d \in DOMAIN uploads :
           /\ p.suffix = "_protected.pdf"
           /\ uploads[d] = PDF(doc(2), "")
           /\ outputs[p] = PDF(doc(2), last.password)
           /\ last.inputs[1] = outputs[p]
    /\ OutputWritten
    /\ outputs[last.out[1]] = PDF(doc(2), "")

RECURSIVE Concat(_)
Concat(ss) == IF Len(ss) = 0 THEN <<>> ELSE ss[1] \o Concat(SubSeq(ss, 2, Len(ss)))

\* the pages of the PDFs among the contents cs, in order
PagesOf(cs) == Concat([i \in 1..Len(cs) |-> IF cs[i].kind = "pdf" THEN cs[i].pages ELSE <<>>])

\* the pages of the unencrypted PDFs among the contents cs, in order
PagesOfReadable(cs) ==
    Concat([i \in 1..Len(cs) |->
               IF cs[i].kind = "pdf" /\ cs[i].pw = "" THEN cs[i].pages ELSE <<>>])

SplitOfPages ==
    /\ last.endpoint = "split"
    /\ Len(last.inputs) = 1
    /\ last.inputs[1].kind = "pdf" /\ last.inputs[1].pw = ""
    /\ Len(last.inputs[1].pages) >= 1
    /\ last.page_list.tag = "list"
    /\ Len(last.page_list.pages) >= 1

\* the pages of the spec that exist in the document
ExistingPages == SeqToSet(last.page_list.pages) \cap (1..Len(last.inputs[1].pages))

\* the page files in the directory of the request
PageFilesWritten == {f \in DOMAIN outputs : f.id = last.out[1].id /\ f.suffix # ""}

\* C11: a split request with a well-formed pages spec is answered with success
\* and writes one single-page file for each page of the spec that exists in the
\* document, and no other file.
C11_SplitWritesPagesOfSpec ==
    (SplitOfPages /\ ExistingPages # {})
        => /\ last.resp.success
           /\ PageFilesWritten =
                  {[id |-> last.out[1].id, suffix |-> page_file(n)] : n \in ExistingPages}
           /\ \A n \in ExistingPages :
                  outputs[[id |-> last.out[1].id, suffix |-> page_file(n)]]
                      = PDF(<<last.inputs[1].pages[n]>>, "")

\* C12: a split request all of whose pages are out of range is answered, with a
\* failure or with an empty list of files, and writes no page file.
C12_SplitOutOfRangeIsEmptyOrError ==
    (SplitOfPages /\ ExistingPages = {})
        => /\ last.resp.status # 0
           /\ (~last.resp.success \/ ~truthy(last.resp.data.files))
           /\ PageFilesWritten = {}

(***************************************************************************)
(* Compression.                                                            *)
(***************************************************************************)
\* C13: whenever compress_pdf returns success, whatever its two steps did, the
\* file at output_path is no larger than the input, compressed_size is the size
\* of that file, and the reduction reported is 0 when the size is the input's.
C13_CompressedNoLargerAndReported ==
    (last.endpoint = "compress" /\ HandlerSucceeded)
        => /\ OutputWritten
           /\ getsize(outputs[last.out[1]]) <= getsize(last.inputs[1])
           /\ last.hres[1].compressed_size = getsize(outputs[last.out[1]])
           /\ (last.hres[1].compressed_size >= last.hres[1].original_size
                   => last.hres[1].reduction = 0)

(***************************************************************************)
(* Uploads.                                                                *)
(***************************************************************************)
\* the request had a file whose name allowed_file refuses
HadRefusedFile ==
    /\ last.endpoint # "none"
    /\ \E i \in 1..Len(last.submitted) : ~allowed_file(last.submitted[i])

\* C14: a request with a file whose extension is not allowed is answered with
\* HTTP 400 before the operation is called, and no file with such an extension
\* is in the upload folder.
C14_RefusedFileAnswered400 ==
    /\ \A p \in DOMAIN uploads : p.ext \in ALLOWED_EXTENSIONS
    /\ HadRefusedFile => (~Called /\ last.resp.status = 400 /\ ~last.resp.success)

\* the identifiers in the names of the saved uploads, of the output files that
\* are not in a directory, and of the output directories
UploadIds == {p.id : p \in DOMAIN uploads}
OutputFiles == {o \in DOMAIN outputs : outputs[o].kind # "dir" /\ o.suffix \in
                    {"_merged.pdf", "_modified.pdf", "_protected.pdf",
                     "_unlocked.pdf", "_compressed.pdf"}}
OutputDirs == {o \in DOMAIN outputs : outputs[o].kind = "dir"}

\* no two of the paths in S carry the same identifier
DistinctIds(S) == \A p, q \in S : p # q => p.id # q.id

\* the two files of a merge request were saved under two identifiers, as
\* {id}.{extension}
TwoUploadsTwoIds ==
    (last.endpoint = "merge" /\ Len(last.inputs) = 2)
        => \E p, q \in DOMAIN uploads :
               /\ p.id # q.id
               /\ p.ext \in ALLOWED_EXTENSIONS /\ q.ext \in ALLOWED_EXTENSIONS
               /\ uploads[p] = last.inputs[1] /\ uploads[q] = last.inputs[2]

NamesInResponse ==
    IF last.resp.success
    THEN {last.resp.data.files[i].original_name : i \in 1..Len(last.resp.data.files)}
    ELSE {}

\* the upload request had files that allowed_file accepts and files it refuses
MixedBatch ==
    /\ last.endpoint = "upload"
    /\ \E i \in 1..Len(last.submitted) :
           Len(last.submitted[i]) > 0 /\ allowed_file(last.submitted[i])
    /\ \E i \in 1..Len(last.submitted) : ~allowed_file(last.submitted[i])

\* C16: an upload request with valid and invalid files is answered with success,
\* every valid file is saved, and the response names the files that were saved
\* and the files that were not.
C16_MixedBatchSavedAndReported ==
    MixedBatch
        => /\ last.resp.success
           /\ \A i \in 1..Len(last.submitted) :
                  allowed_file(last.submitted[i])
                      => \E p \in DOMAIN uploads : p.ext = lower(rsplit_dot(last.submitted[i])[2])
           /\ \A i \in 1..Len(last.submitted) :
                  secure_filename(last.submitted[i]) \in NamesInResponse

(***************************************************************************)
(* Responses.                                                              *)
(***************************************************************************)
IsSuccessEnvelope(r) ==
    /\ DOMAIN r = {"success", "message", "timestamp", "data", "status"}
    /\ r.success = TRUE
    /\ r.status < 400

IsFailureEnvelope(r) ==
    /\ DOMAIN r = {"success", "message", "timestamp", "error", "status"}
    /\ r.success = FALSE
    /\ r.status >= 400

\* C17 as stated: every response of an endpoint is a success envelope (success,
\* message, timestamp, data, a status below 400) or a failure envelope (success,
\* message, timestamp, error, a status of 400 or above).
C17_EveryResponseIsEnvelope ==
    last.endpoint # "none"
        => (IsSuccessEnvelope(last.resp) \/ IsFailureEnvelope(last.resp))

\* C17, amended: every response of an endpoint other than the file a download
\* sends is a success envelope or a failure envelope, and a download that sends
\* no file is answered with a failure envelope.
C17_EveryResponseButFileIsEnvelope ==
    /\ last.endpoint \notin {"none", "download"}
           => (IsSuccessEnvelope(last.resp) \/ IsFailureEnvelope(last.resp))
    /\ last.endpoint = "download"
           => ("file" \in DOMAIN last.resp \/ IsFailureEnvelope(last.resp))

\* a download of a file that is not there, after a request answered before it
C17_Witness ==
    /\ served = 2
    /\ last.endpoint = "download"
    /\ IsFailureEnvelope(last.resp)
    /\ last.resp.status = 404

(***************************************************************************)
(* Exceptions.                                                             *)
(***************************************************************************)
\* a file name that allowed_file accepts and that secure_filename leaves without
\* a dot: rsplit('.', 1)[1] raises IndexError in save_uploaded_file
RaisesInSave(name) ==
    Len(name) > 0 /\ allowed_file(name) /\ ~contains(secure_filename(name), ".")

\* something has raised inside the handler of the last request: the conversion
\* of the angle or of the page string, the saving of an upload, the call of a
\* method PDFHandler does not have
RaisedInHandler ==
    \/ last.endpoint = "rotate" /\ Len(last.submitted) = 1 /\ ~py_int(last.angle).ok
    \/ last.endpoint = "rotate" /\ Len(last.inputs) = 1
    \/ last.endpoint \in {"rotate", "split", "remove-pages"} /\ last.page_list.tag = "error"
    \/ last.endpoint = "upload" /\ \E i \in 1..Len(last.submitted) : RaisesInSave(last.submitted[i])

C19_StorageRemovedOnShutdown ==
    pc = "stopped" => (DOMAIN uploads = {} /\ DOMAIN outputs = {})

(***************************************************************************)
(* C20.  Every path a request has written or removed lies inside one of    *)
(* the upload, output and temp folders, whatever the file name, the        *)
(* identifier in the URL or the parameter of the request.                  *)
(***************************************************************************)
\* the components of a path after "." and ".." are resolved
RECURSIVE resolve(_, _)
resolve(parts, stack) ==
    IF Len(parts) = 0 THEN stack
    ELSE IF parts[1] = <<>> \/ parts[1] = <<".">>
    THEN resolve(Tail(parts), stack)
    ELSE IF parts[1] = <<".", ".">> /\ Len(stack) > 0 /\ stack[Len(stack)] # <<".", ".">>
    THEN resolve(Tail(parts), SubSeq(stack, 1, Len(stack) - 1))
    ELSE resolve(Tail(parts), Append(stack, parts[1]))

normpath(path) == resolve(split(path, "/"), <<>>)

InsideStorage(path) ==
    /\ Len(normpath(path)) >= 2
    /\ normpath(path)[1] \in {UPLOAD_FOLDER, OUTPUT_FOLDER, TEMP_FOLDER}

Touched == IF "touched" \in DOMAIN last THEN last.touched ELSE {}

\* C20: every path the last request has written or removed is inside the
\* upload, the output or the temp folder
C20_TouchedPathsInsideStorage == \A path \in Touched : InsideStorage(path)

\* a file whose name climbs out of the folder has been saved, and a directory
\* made for it
C20_Witness ==
    /\ last.endpoint = "split"
    /\ Len(last.submitted) = 1
    /\ contains(last.submitted[1], "/")
    /\ Cardinality(Touched) = 2

(***************************************************************************)
(* C21.  The download_url of a success response resolves: a GET of it that *)
(* follows the response at once sends the artifact.                        *)
(***************************************************************************)
\* C21: when a conversion to images has answered success with a download_url
\* and the next request is a GET of that URL, the answer is the archive of
\* the images, not a 404
C21_DownloadReferenceResolves ==
    [][(/\ last.endpoint = "pdf_to_jpg"
        /\ last.resp.status = 200
        /\ last'.endpoint = "download_images"
        /\ last'.folder_id = last.resp.data.download_url.name)
           => "file" \in DOMAIN last'.resp]_vars

(***************************************************************************)
(* C30.  The list Converter.pdf_to_jpg returns names every converted page  *)
(* once, also when PyMuPDF runs after pdf2image has raised.                *)
(***************************************************************************)
\* C30: the non-empty list of images a conversion returns has no path twice
\* and as many paths as the document has pages
C30_EachPageReturnedOnce ==
    (last.endpoint = "pdf_to_jpg" /\ Len(last.hres) = 1 /\ truthy(last.hres[1]))
        => /\ \A i, j \in 1..Len(last.hres[1]) :
                  last.hres[1][i] = last.hres[1][j] => i = j
           /\ Len(last.hres[1]) = Len(last.inputs[1].pages)

(***************************************************************************)
(* C22.  POST /api/pdf/rotate with a valid PDF and angle 90, no pages, is  *)
(* answered 200 with success, and the rotated output is written.           *)
(***************************************************************************)
\* a rotate request with a PDF that has pages and no password, under an allowed
\* name, angle 90 and no pages field
RotateBy90 ==
    /\ last.endpoint = "rotate"
    /\ Len(last.submitted) = 1 /\ allowed_file(last.submitted[1])
    /\ Len(last.inputs) = 1
    /\ last.inputs[1].kind = "pdf" /\ last.inputs[1].pw = ""
    /\ Len(last.inputs[1].pages) > 0
    /\ last.angle = <<"9", "0">>
    /\ last.page_list = ReturnsNone

\* C22: such a request is answered with status 200 and success, and its output
\* file is in the output folder
C22_RotateBy90Succeeds ==
    RotateBy90
        => /\ last.resp.status = 200
           /\ last.resp.success
           /\ \A p \in SeqToSet(last.out) : p \in DOMAIN outputs

(***************************************************************************)
(* C23.  POST /api/pdf/extract-text with a PDF that has text is answered   *)
(* 200 with success, the text is written to the output file and returned   *)
(* with its length.                                                        *)
(***************************************************************************)
\* an extract-text request with a PDF that has pages, all with text, and no
\* password, under an allowed name
ExtractFromText ==
    /\ last.endpoint = "extract_text"
    /\ Len(last.submitted) = 1 /\ allowed_file(last.submitted[1])
    /\ Len(last.inputs) = 1
    /\ last.inputs[1].kind = "pdf" /\ last.inputs[1].pw = ""
    /\ Len(last.inputs[1].pages) > 0

\* C23: such a request is answered with status 200 and success, the output
\* file holds the text of the document, and the response carries the text and
\* its length
C23_ExtractTextSucceeds ==
    ExtractFromText
        => /\ last.resp.status = 200
           /\ last.resp.success
           /\ outputs[last.out[1]] = TextFile(last.inputs[1].pages)
           /\ last.resp.data.text = last.inputs[1].pages
           /\ last.resp.data.full_text_length = Len(last.inputs[1].pages)

(***************************************************************************)
(* C24.  After POST /api/cleanup with a threshold of h hours no uploaded   *)
(* file older than h hours remains, as no output and no temp file does.    *)
(***************************************************************************)
\* a clean-up with a threshold that every file present is older than
CleanedAll ==
    /\ last.endpoint = "cleanup"
    /\ py_int(last.hours).ok
    /\ py_int(last.hours).val <= 0

\* C24: after such a clean-up the upload folder is empty, and so are the
\* output and the temp folder
C24_CleanupRemovesOldUploads ==
    CleanedAll
        => /\ DOMAIN uploads = {}
           /\ DOMAIN outputs = {}
           /\ DOMAIN temp = {}

(***************************************************************************)
(* C27.  PDFHandler.rotate_pdf applies an angle of 0, 90, 180 or 270: a    *)
(* multiple of 90 unchanged modulo 360, any other angle as the nearest     *)
(* multiple of 90.                                                         *)
(***************************************************************************)
\* rotate_pdf has rotated every page of a document once
RotatedAllOnce ==
    /\ last.endpoint = "PDFHandler.rotate_pdf"
    /\ last.hres[1].success
    /\ last.args.pages = ReturnsNone

\* the angle of the call as a number of 0..359 and whole turns
Turned(angle) == CHOOSE a \in 0..359 : \E q \in -3..3 : angle = 360 * q + a

Distance(a, b) == IF a < b THEN b - a ELSE a - b

\* C27: whatever the integer angle, every page of the output is rotated by an
\* angle e of 0, 90, 180 or 270; e is the angle itself modulo 360 when that is
\* a multiple of 90, and otherwise a multiple of 90 at most 45 degrees from it
C27_AngleNormalized ==
    RotatedAllOnce
        => \A i \in 1..Len(last.inputs[1].pages) :
               LET e == outputs[last.out[1]].rotation[i]
                   a == Turned(last.args.angle)
               IN  /\ e \in {0, 90, 180, 270}
                   /\ a \in {0, 90, 180, 270} => e = a
                   /\ \E k \in {0, 90, 180, 270, 360} :
                          k % 360 = e /\ Distance(a, k) <= 45

\* a negative angle that is no multiple of 90 has been applied
C27_Witness ==
    /\ RotatedAllOnce
    /\ last.args.angle < 0
    /\ Turned(last.args.angle) \notin {0, 90, 180, 270}
    /\ outputs[last.out[1]].rotation[1] = 270

(***************************************************************************)
(* C29.  PDFHandler.remove_pages removes the distinct pages of the list    *)
(* that are in range and no other, and refuses to remove all pages only    *)
(* when these are all the pages of the document.                           *)
(***************************************************************************)
\* remove_pages has been called on a PDF that opens
RemoveCalled ==
    /\ last.endpoint = "PDFHandler.remove_pages"
    /\ last.inputs[1].kind = "pdf" /\ last.inputs[1].pw = ""
    /\ Len(last.inputs[1].pages) > 0

\* the distinct numbers of the list that name a page of the document
DistinctValid ==
    {p \in SeqToSet(last.args.pages_to_remove) :
         1 <= p /\ p <= Len(last.inputs[1].pages)}

C25_WritersNeverContend ==
    \A t1, t2 \in DOMAIN running :
        t1 # t2 => running[t1].writing \cap running[t2].writing = {}

(***************************************************************************)
(* C26.  A merge of which fewer than two files were saved fails.           *)
(***************************************************************************)
\* a merge request of which save_uploaded_files kept fewer than two files
MergedFewerThanTwo == last.endpoint = "merge" /\ Len(last.inputs) < 2

\* C26: when fewer than two of the files of a merge request are valid and saved,
\* the response is a failure, it carries no download link, and no merged output
\* is written.
C26_MergeNeedsTwoSaved ==
    MergedFewerThanTwo =>
        /\ ~last.resp.success
        /\ "data" \in DOMAIN last.resp => "download_url" \notin DOMAIN last.resp.data
        /\ \A i \in 1..Len(last.out) : last.out[i] \notin DOMAIN outputs

(***************************************************************************)
(* C28.  DELETE /api/files/<file_id> removes what belongs to file_id and   *)
(* nothing else.                                                           *)
(***************************************************************************)
\* the entry called name belongs to file_id: file_id is an identifier the
\* service has handed out, and the name begins with it
belongs(name, file_id) ==
    /\ \E n \in 1..next_id : file_id = uuid_str(n)
    /\ startswith(name, file_id)

\* the entries of a folder that do not belong to file_id, as they are
others(folder, name_of(_), file_id) ==
    [k \in {j \in DOMAIN folder : ~belongs(name_of(j), file_id)} |-> folder[k]]

temp_name(n) == n

\* C28: a delete request removes exactly the files and folders that belong to
\* its identifier and leaves every other file as it is; it answers 404, and
\* removes nothing, when nothing belongs to the identifier, and with success
\* otherwise.
C28_DeleteRemovesExactlyOwn ==
    [][(last'.endpoint = "delete" /\ served' = served + 1) =>
           /\ uploads' = others(uploads, upload_name, last'.file_id)
           /\ outputs' = others(outputs, output_name, last'.file_id)
           /\ temp' = others(temp, temp_name, last'.file_id)
           /\ last'.resp.success
                  = (<<uploads', outputs', temp'>> # <<uploads, outputs, temp>>)
           /\ ~last'.resp.success => last'.resp.status = 404]_vars

====
